---- MODULE Spec2Model ----
(***************************************************************************)
(* Model of the property marshalling engine of                             *)
(* clients/common/nm-meta-setting-desc.c: the per-property get / set /     *)
(* remove handlers and the text helpers they are built from.               *)
(*                                                                         *)
(* A text is a sequence of one-character strings.  The C NULL pointer is   *)
(* the distinguished value NULL, which no text over an alphabet equals.    *)
(***************************************************************************)
EXTENDS Integers, Sequences, FiniteSets, TLC

VARIABLES obj, last

vars == <<obj, last>>

NULL == <<"NULL">>

(***************************************************************************)
(* Bounds of the exploration.                                              *)
(***************************************************************************)
MaxTextLen == 3
MaxListLen == 2
MaxOptTextLen == 5

(***************************************************************************)
(* Text helpers.                                                           *)
(***************************************************************************)
RECURSIVE TextsUpTo(_, _)
TextsUpTo(alphabet, n) ==
    IF n = 0 THEN {<<>>}
    ELSE LET shorter == TextsUpTo(alphabet, n - 1)
         IN  shorter \cup {Append(t, c) : t \in {s \in shorter : Len(s) = n - 1}, c \in alphabet}

g_ascii_isspace(c) == c \in {" ", "\t"}

RECURSIVE SkipLeadingSpaces(_)
SkipLeadingSpaces(s) ==
    IF s # <<>> /\ g_ascii_isspace(Head(s)) THEN SkipLeadingSpaces(Tail(s)) ELSE s

RECURSIVE g_strchomp(_)
g_strchomp(s) ==
    IF s # <<>> /\ g_ascii_isspace(s[Len(s)]) THEN g_strchomp(SubSeq(s, 1, Len(s) - 1)) ELSE s

g_strstrip(s) == g_strchomp(SkipLeadingSpaces(s))

nm_strstrip_avoid_copy(s) == g_strstrip(s)

\* index of the first occurrence of c in s, 0 when absent (strchr)
strchr(s, c) ==
    IF \E i \in 1..Len(s) : s[i] = c
    THEN CHOOSE i \in 1..Len(s) : s[i] = c /\ \A j \in 1..(i - 1) : s[j] # c
    ELSE 0

\* the tokens of s between delimiters, empty tokens dropped; the C function
\* returns NULL (here: the empty sequence) when there is no token at all
RECURSIVE SplitAcc(_, _, _, _)
SplitAcc(s, delims, cur, acc) ==
    IF s = <<>> THEN (IF cur = <<>> THEN acc ELSE Append(acc, cur))
    ELSE IF Head(s) \in delims
         THEN SplitAcc(Tail(s), delims, <<>>, IF cur = <<>> THEN acc ELSE Append(acc, cur))
         ELSE SplitAcc(Tail(s), delims, Append(cur, Head(s)), acc)

nm_utils_strsplit_set(s, delims) == SplitAcc(s, delims, <<>>, <<>>)

StrvIsNull(strv) == strv = <<>>

Digits == {"0", "1", "2", "3", "4", "5", "6", "7", "8", "9"}

DigitVal(c) ==
    CASE c = "0" -> 0 [] c = "1" -> 1 [] c = "2" -> 2 [] c = "3" -> 3 [] c = "4" -> 4
      [] c = "5" -> 5 [] c = "6" -> 6 [] c = "7" -> 7 [] c = "8" -> 8 [] c = "9" -> 9

RECURSIVE DecValue(_, _)
DecValue(s, acc) ==
    IF s = <<>> THEN acc ELSE DecValue(Tail(s), acc * 10 + DigitVal(Head(s)))

RECURSIVE DigitPrefixLen(_)
DigitPrefixLen(s) ==
    IF s # <<>> /\ Head(s) \in Digits THEN 1 + DigitPrefixLen(Tail(s)) ELSE 0

\* base 10: leading white space, an optional sign, digits, trailing white
\* space; anything else, or a value outside [min, max], gives the fallback
_nm_utils_ascii_str_to_int64(str, min, max, fallback) ==
    LET s0   == SkipLeadingSpaces(str)
        neg  == s0 # <<>> /\ Head(s0) = "-"
        s1   == IF s0 # <<>> /\ Head(s0) \in {"-", "+"} THEN Tail(s0) ELSE s0
        n    == DigitPrefixLen(s1)
        rest == SubSeq(s1, n + 1, Len(s1))
        mag  == DecValue(SubSeq(s1, 1, n), 0)
        v    == IF neg THEN 0 - mag ELSE mag
    IN  IF s0 = <<>> THEN fallback
        ELSE IF n = 0 THEN fallback
        ELSE IF SkipLeadingSpaces(rest) # <<>> THEN fallback
        ELSE IF v > max \/ v < min THEN fallback
        ELSE v

\* the model's integers are 32 bits wide: both limits are clipped to the
\* largest one, far above every number a text within the bounds can spell
G_MAXINT64 == 2147483647
G_MAXUINT32 == 2147483647

RECURSIVE JoinWith(_, _)
JoinWith(strs, sep) ==
    IF strs = <<>> THEN <<>>
    ELSE IF Len(strs) = 1 THEN strs[1]
    ELSE strs[1] \o sep \o JoinWith(Tail(strs), sep)

\* gettext: the translation of a message is a text of its own
l10n(s) == <<"_(">> \o s \o <<")">>


(***************************************************************************)
(* The ConfigurationObject: one connection being edited.  Scalars of the   *)
(* connection / wireless-security / ethtool settings and the list-valued   *)
(* properties of the 802-1x, connection and ipv4 settings.                 *)
(***************************************************************************)
ListProps == {"altsubject", "eap", "dns", "addresses", "routes", "permissions"}

\* the key=value option tables: a set of [name, value] with distinct names
OptionProps == {"bond_options", "vpn_data"}

\* the value g_param_value_defaults() gives the property
PspecDefault(p) ==
    CASE p = "autoconnect" -> TRUE
      [] p = "ethtool"     -> "default"
      [] p \in ListProps   -> <<>>
      [] p \in OptionProps -> {}
      [] p \in {"priority_group_flags", "priority_flow_control_flags"} -> 0
      [] p \in {"priority_group_id", "priority_group_bandwidth"}
                           -> <<0, 0, 0, 0, 0, 0, 0, 0>>
      [] p = "priority_flow_control"
                           -> <<FALSE, FALSE, FALSE, FALSE, FALSE, FALSE, FALSE, FALSE>>
      [] p \in {"wep_key_type", "ip_tunnel_flags", "psk_flags"} -> 0
      [] p = "mdns"        -> -1
      [] p = "vlan_flags"  -> 1
      [] p \in {"ingress_priority_map", "egress_priority_map", "mac_address_blacklist",
                 "runner_tx_hash"}
                           -> <<>>
      [] p = "dns_options" -> NULL
      [] OTHER             -> NULL

InitObj ==
    [type |-> NULL, uuid |-> NULL, psk |-> NULL,
     autoconnect |-> TRUE, ethtool |-> "default",
     altsubject |-> <<>>, eap |-> <<>>, dns |-> <<>>, addresses |-> <<>>,
     routes |-> <<>>, permissions |-> <<>>,
     bond_options |-> {}, vpn_data |-> {},
     priority_group_flags |-> 0, priority_flow_control_flags |-> 0,
     priority_group_id |-> <<0, 0, 0, 0, 0, 0, 0, 0>>,
     priority_group_bandwidth |-> <<0, 0, 0, 0, 0, 0, 0, 0>>,
     priority_flow_control |-> <<FALSE, FALSE, FALSE, FALSE, FALSE, FALSE, FALSE, FALSE>>,
     mdns |-> -1, wep_key_type |-> 0, wep_key0 |-> NULL, ip_tunnel_flags |-> 0,
     psk_flags |-> 0, vlan_flags |-> 1,
     ingress_priority_map |-> <<>>, egress_priority_map |-> <<>>,
     mac_address_blacklist |-> <<>>,
     dns_options |-> NULL, runner_tx_hash |-> <<>>]

Ok(o) == [obj |-> o, res |-> "ok", err |-> NULL, warn |-> NULL]
Err(o, e) == [obj |-> o, res |-> "error", err |-> e, warn |-> NULL]
Crash(o) == [obj |-> o, res |-> "crash", err |-> NULL, warn |-> NULL]

\* the handler called _env_warn_fcn with the message w (NULL: it did not)
Warn(r, w) == [r EXCEPT !.warn = w]

_SET_FCN_DO_RESET_DEFAULT(value) == value = NULL

_gobject_property_reset_default(o, p) == Ok([o EXCEPT ![p] = PspecDefault(p)])

_gobject_property_is_default(o, p) ==
    IF p \in ListProps THEN o[p] = <<>>
    ELSE IF p \in OptionProps THEN o[p] = {}
    ELSE o[p] = PspecDefault(p)

(***************************************************************************)
(* Validators of the libraries the handlers call.                          *)
(***************************************************************************)
AF_INET == "AF_INET"
AF_INET6 == "AF_INET6"

\* the characters an address of the family is written with
AddrChars(family) == IF family = AF_INET THEN {"a", "b"} ELSE {"c", "d"}

\* inet_pton accepts the text as an address of the family
nm_utils_ipaddr_valid(family, s) ==
    s # <<>> /\ \A i \in 1..Len(s) : s[i] \in AddrChars(family)

nm_utils_parse_inaddr(family, s) == nm_utils_ipaddr_valid(family, s)

\* first exact match, else the only prefix match; an earlier second prefix
\* match is reported as ambiguous before a later exact match is seen
RECURSIVE nmc_string_is_valid_loop(_, _, _, _)
nmc_string_is_valid_loop(input, allowed, i, ret) ==
    IF i > Len(allowed) THEN ret
    ELSE LET p == allowed[i]
             n == Len(input)
         IN  IF n <= Len(p) /\ SubSeq(p, 1, n) = input
             THEN IF n = Len(p) THEN p
                  ELSE IF ret = NULL THEN nmc_string_is_valid_loop(input, allowed, i + 1, p)
                  ELSE NULL
             ELSE nmc_string_is_valid_loop(input, allowed, i + 1, ret)

nmc_string_is_valid(input, allowed) ==
    IF input = NULL \/ input = <<>> THEN NULL
    ELSE nmc_string_is_valid_loop(input, allowed, 1, NULL)

HasValuesStatic(p) == p = "eap"

values_static(p) == << <<"a">>, <<"1", "a">> >>

(***************************************************************************)
(* The store's list accessors.                                             *)
(***************************************************************************)
list_add(o, p, item) == [o EXCEPT ![p] = Append(@, item)]

list_remove_by_idx(o, p, idx) ==
    [o EXCEPT ![p] = SubSeq(@, 1, idx) \o SubSeq(@, idx + 2, Len(@))]

list_remove_by_value(o, p, item) ==
    [o EXCEPT ![p] = SelectSeq(@, LAMBDA e : e # item)]


(***************************************************************************)
(* Generic multi-value list: _set_fcn_multilist / _remove_fcn_multilist.   *)
(***************************************************************************)
MultilistProps == {"altsubject", "eap"}

\* the loop skipping an item the list already holds
RECURSIVE _set_fcn_multilist_loop_dedup(_, _, _, _)
_set_fcn_multilist_loop_dedup(o, p, strv, i) ==
    IF i > Len(strv) THEN Ok(o)
    ELSE LET item == IF HasValuesStatic(p)
                     THEN nmc_string_is_valid(strv[i], values_static(p))
                     ELSE strv[i]
         IN  IF item = NULL THEN Err(o, strv[i])
             ELSE IF \E j \in 1..Len(o[p]) : o[p][j] = item
             THEN _set_fcn_multilist_loop_dedup(o, p, strv, i + 1)
             ELSE _set_fcn_multilist_loop_dedup(list_add(o, p, item), p, strv, i + 1)

RECURSIVE _set_fcn_multilist_loop(_, _, _, _)
_set_fcn_multilist_loop(o, p, strv, i) ==
    IF i > Len(strv) THEN Ok(o)
    ELSE LET item == IF HasValuesStatic(p)
                     THEN nmc_string_is_valid(strv[i], values_static(p))
                     ELSE strv[i]
         IN  IF item = NULL THEN Err(o, strv[i])
             ELSE _set_fcn_multilist_loop(list_add(o, p, item), p, strv, i + 1)

_set_fcn_multilist(o, p, value) ==
    IF _SET_FCN_DO_RESET_DEFAULT(value) THEN _gobject_property_reset_default(o, p)
    ELSE _set_fcn_multilist_loop(o, p, nm_utils_strsplit_set(value, {" ", "\t", ","}), 1)

\* the remover trying the value before the index
_remove_fcn_multilist_value_first(o, p, value) ==
    LET idx == _nm_utils_ascii_str_to_int64(value, 0, G_MAXINT64, -1)
        v1  == nm_strstrip_avoid_copy(value)
        v2  == IF HasValuesStatic(p) THEN nmc_string_is_valid(v1, values_static(p)) ELSE v1
    IN  IF v2 # NULL /\ \E j \in 1..Len(o[p]) : o[p][j] = v2
        THEN Ok(list_remove_by_value(o, p, v2))
        ELSE IF idx # -1
        THEN IF idx < Len(o[p]) THEN Ok(list_remove_by_idx(o, p, idx)) ELSE Ok(o)
        ELSE IF v2 = NULL THEN Err(o, v1)
        ELSE Ok(o)

_remove_fcn_multilist(o, p, value) ==
    LET idx == _nm_utils_ascii_str_to_int64(value, 0, G_MAXINT64, -1)
    IN  IF idx # -1
        THEN IF idx < Len(o[p]) THEN Ok(list_remove_by_idx(o, p, idx)) ELSE Ok(o)
        ELSE LET v1 == nm_strstrip_avoid_copy(value)
                 v2 == IF HasValuesStatic(p)
                       THEN nmc_string_is_valid(v1, values_static(p))
                       ELSE v1
             IN  IF v2 = NULL THEN Err(o, v1)
                 ELSE Ok(list_remove_by_value(o, p, v2))

(***************************************************************************)
(* The remover macros: index first, then the value path.                   *)
(***************************************************************************)
\* the remover leaving the index branch when the index is out of range
_DEFINE_REMOVER_INDEX_ELSE_VALUE(o, p, value, rem_func_cmd) ==
    LET idx == _nm_utils_ascii_str_to_int64(value, 0, G_MAXINT64, -1)
    IN  IF idx # -1 /\ idx < Len(o[p]) THEN Ok(list_remove_by_idx(o, p, idx))
        ELSE rem_func_cmd

_DEFINE_REMOVER_INDEX_OR_VALUE(o, p, value, rem_func_cmd) ==
    LET idx == _nm_utils_ascii_str_to_int64(value, 0, G_MAXINT64, -1)
    IN  IF idx # -1
        THEN IF idx < Len(o[p]) THEN Ok(list_remove_by_idx(o, p, idx)) ELSE Ok(o)
        ELSE rem_func_cmd

DEFINE_REMOVER_INDEX_OR_VALUE_DIRECT(o, p, value) ==
    _DEFINE_REMOVER_INDEX_OR_VALUE(o, p, value,
        LET v1 == nm_strstrip_avoid_copy(value)
            v2 == IF HasValuesStatic(p)
                  THEN nmc_string_is_valid(v1, values_static(p))
                  ELSE v1
        IN  IF v2 = NULL THEN Err(o, v1)
            ELSE Ok(list_remove_by_value(o, p, v2)))

(***************************************************************************)
(* connection.permissions                                                  *)
(***************************************************************************)
PERM_USER_PREFIX == <<"u", "s", "e", "r", ":">>

HasPrefix(s, pre) == Len(s) >= Len(pre) /\ SubSeq(s, 1, Len(pre)) = pre

permissions_valid(perm) ==
    IF perm = <<>> THEN FALSE
    ELSE IF HasPrefix(perm, PERM_USER_PREFIX)
         THEN ~ (   Len(perm) <= Len(PERM_USER_PREFIX)
                 \/ strchr(SubSeq(perm, Len(PERM_USER_PREFIX) + 1, Len(perm)), ":") # 0)
         ELSE strchr(perm, ":") = 0

\* the first token the validator rejects, NULL when there is none
RECURSIVE verify_string_list_permissions(_, _)
verify_string_list_permissions(strv, i) ==
    IF i > Len(strv) THEN NULL
    ELSE IF strv[i] # <<>> /\ ~ permissions_valid(strv[i]) THEN strv[i]
    ELSE verify_string_list_permissions(strv, i + 1)

RECURSIVE _set_fcn_connection_permissions_loop(_, _, _)
_set_fcn_connection_permissions_loop(o, strv, i) ==
    IF i > Len(strv) THEN Ok(o)
    ELSE LET user == IF HasPrefix(strv[i], PERM_USER_PREFIX)
                     THEN SubSeq(strv[i], Len(PERM_USER_PREFIX) + 1, Len(strv[i]))
                     ELSE strv[i]
         IN  _set_fcn_connection_permissions_loop(list_add(o, "permissions", user), strv, i + 1)

_set_fcn_connection_permissions(o, value) ==
    IF _SET_FCN_DO_RESET_DEFAULT(value)
    THEN _gobject_property_reset_default(o, "permissions")
    ELSE LET strv == nm_utils_strsplit_set(value, {" ", "\t", ","})
             bad  == verify_string_list_permissions(strv, 1)
         IN  IF bad # NULL THEN Err(o, bad)
             ELSE _set_fcn_connection_permissions_loop(o, strv, 1)

_remove_fcn_connection_permissions(o, value) ==
    DEFINE_REMOVER_INDEX_OR_VALUE_DIRECT(o, "permissions", value)

(***************************************************************************)
(* ipv4.dns                                                                *)
(***************************************************************************)
RECURSIVE _set_fcn_ip_config_dns_loop(_, _, _)
_set_fcn_ip_config_dns_loop(o, strv, i) ==
    IF i > Len(strv) THEN Ok(o)
    ELSE LET addr == g_strstrip(strv[i])
         IN  IF ~ nm_utils_parse_inaddr(AF_INET, addr) THEN Err(o, addr)
             ELSE _set_fcn_ip_config_dns_loop(list_add(o, "dns", addr), strv, i + 1)

_set_fcn_ip_config_dns(o, value) ==
    IF _SET_FCN_DO_RESET_DEFAULT(value) THEN _gobject_property_reset_default(o, "dns")
    ELSE _set_fcn_ip_config_dns_loop(o, nm_utils_strsplit_set(value, {" ", "\t", ","}), 1)

\* the remover reporting an address the list does not hold
_validate_and_remove_ip_dns_must_match(o, dns) ==
    IF ~ nm_utils_parse_inaddr(AF_INET, dns) THEN Err(o, dns)
    ELSE IF \A j \in 1..Len(o.dns) : o.dns[j] # dns THEN Err(o, dns)
    ELSE Ok(list_remove_by_value(o, "dns", dns))

_validate_and_remove_ip_dns(o, dns) ==
    IF ~ nm_utils_parse_inaddr(AF_INET, dns) THEN Err(o, dns)
    ELSE Ok(list_remove_by_value(o, "dns", dns))

_remove_fcn_ip_config_dns(o, value) ==
    _DEFINE_REMOVER_INDEX_OR_VALUE(o, "dns", value,
        _validate_and_remove_ip_dns(o, nm_strstrip_avoid_copy(value)))

(***************************************************************************)
(* ipv4.addresses                                                          *)
(***************************************************************************)
MAX_PREFIX_inet(family) == 32

MAX_PREFIX(family) == IF family = AF_INET THEN 32 ELSE 128

Parsed(v) == [ok |-> TRUE, v |-> v, err |-> NULL]
ParseError(e) == [ok |-> FALSE, v |-> NULL, err |-> e]

InvalidPrefix(plen) == <<"invalid prefix">> \o plen
InvalidAddress(address) == <<"invalid IP address">> \o address

nm_ip_address_new(family, address, prefix) ==
    IF nm_utils_ipaddr_valid(family, address) /\ prefix <= MAX_PREFIX(family)
    THEN Parsed([address |-> address, prefix |-> prefix])
    ELSE ParseError(InvalidAddress(address))

_parse_ip_address(family, address) ==
    LET str    == g_strstrip(address)
        slash  == strchr(str, "/")
        ip_str == IF slash # 0 THEN SubSeq(str, 1, slash - 1) ELSE str
        plen   == SubSeq(str, slash + 1, Len(str))
        prefix == IF slash # 0
                  THEN _nm_utils_ascii_str_to_int64(plen, 1, MAX_PREFIX(family), -1)
                  ELSE MAX_PREFIX(family)
    IN  IF prefix = -1 THEN ParseError(InvalidPrefix(plen))
        ELSE nm_ip_address_new(family, ip_str, prefix)

\* iter starts at strv without a NULL check: line 3322 dereferences it
RECURSIVE _set_fcn_ip4_config_addresses_loop(_, _, _)
_set_fcn_ip4_config_addresses_loop(o, strv, i) ==
    IF i > Len(strv) THEN Ok(o)
    ELSE LET addr == _parse_ip_address(AF_INET, strv[i])
         IN  IF ~ addr.ok THEN Err(o, addr.err)
             ELSE _set_fcn_ip4_config_addresses_loop(list_add(o, "addresses", addr.v), strv, i + 1)

_set_fcn_ip4_config_addresses(o, value) ==
    IF _SET_FCN_DO_RESET_DEFAULT(value)
    THEN _gobject_property_reset_default(o, "addresses")
    ELSE LET strv == nm_utils_strsplit_set(value, {","})
         IN  IF StrvIsNull(strv) THEN Crash(o)
             ELSE _set_fcn_ip4_config_addresses_loop(o, strv, 1)

_validate_and_remove_ip_address(o, value) ==
    LET addr == _parse_ip_address(AF_INET, value)
    IN  IF ~ addr.ok THEN Err(o, addr.err)
        ELSE Ok(list_remove_by_value(o, "addresses", addr.v))

_remove_fcn_ip_config_addresses(o, value) ==
    _DEFINE_REMOVER_INDEX_OR_VALUE(o, "addresses", value,
        _validate_and_remove_ip_address(o, nm_strstrip_avoid_copy(value)))

(***************************************************************************)
(* ipv4.routes                                                             *)
(***************************************************************************)
ROUTE_SYNTAX == <<"ROUTE_SYNTAX">>

NextHopMustBeFirst(tok) == <<"the next hop must be first">> \o tok
MetricMustBeBeforeAttributes(tok) == <<"the metric must be before attributes">> \o tok
InvalidOption(tok) == <<"invalid option">> \o tok
InvalidRoute(dest) == <<"invalid route">> \o dest

nm_ip_route_new(family, dest, prefix, next_hop, metric) ==
    IF    nm_utils_ipaddr_valid(family, dest) /\ prefix <= MAX_PREFIX(family)
       /\ (next_hop = NULL \/ nm_utils_ipaddr_valid(family, next_hop))
    THEN Parsed([dest |-> dest, prefix |-> prefix, next_hop |-> next_hop, metric |-> metric])
    ELSE ParseError(InvalidRoute(dest))

\* the attributes the route knows; the text of one is name=value
nm_ip_route_get_variant_attribute_spec == {<<"n">>}

nm_utils_parse_variant_attributes(tok) ==
    /\ SubSeq(tok, 1, strchr(tok, "=") - 1) \in nm_ip_route_get_variant_attribute_spec
    /\ strchr(tok, "=") < Len(tok)

RECURSIVE _parse_ip_route_loop_any_order(_, _, _, _)
_parse_ip_route_loop_any_order(family, routev, i, acc) ==
    IF i > Len(routev) THEN acc
    ELSE LET tok   == routev[i]
             tmp64 == _nm_utils_ascii_str_to_int64(tok, 0, G_MAXUINT32, -1)
         IN  IF nm_utils_ipaddr_valid(family, tok)
             THEN _parse_ip_route_loop_any_order(family, routev, i + 1, [acc EXCEPT !.next_hop = tok])
             ELSE IF tmp64 # -1
             THEN _parse_ip_route_loop_any_order(family, routev, i + 1, [acc EXCEPT !.metric = tmp64])
             ELSE IF strchr(tok, "=") # 0
             THEN IF ~ nm_utils_parse_variant_attributes(tok)
                  THEN [acc EXCEPT !.err = InvalidOption(tok)]
                  ELSE _parse_ip_route_loop_any_order(family, routev, i + 1, [acc EXCEPT !.attrs = TRUE])
             ELSE [acc EXCEPT !.err = ROUTE_SYNTAX]

\* the loop over routev[1..]: acc holds next_hop, metric and whether an
\* attribute has been seen; acc.err is the token that stopped the loop
RECURSIVE _parse_ip_route_loop(_, _, _, _)
_parse_ip_route_loop(family, routev, i, acc) ==
    IF i > Len(routev) THEN acc
    ELSE LET tok   == routev[i]
             tmp64 == _nm_utils_ascii_str_to_int64(tok, 0, G_MAXUINT32, -1)
         IN  IF nm_utils_ipaddr_valid(family, tok)
             THEN IF acc.metric # -1 \/ acc.attrs
                  THEN [acc EXCEPT !.err = NextHopMustBeFirst(tok)]
                  ELSE _parse_ip_route_loop(family, routev, i + 1, [acc EXCEPT !.next_hop = tok])
             ELSE IF tmp64 # -1
             THEN IF acc.attrs THEN [acc EXCEPT !.err = MetricMustBeBeforeAttributes(tok)]
                  ELSE _parse_ip_route_loop(family, routev, i + 1, [acc EXCEPT !.metric = tmp64])
             ELSE IF strchr(tok, "=") # 0
             THEN IF ~ nm_utils_parse_variant_attributes(tok)
                  THEN [acc EXCEPT !.err = InvalidOption(tok)]
                  ELSE _parse_ip_route_loop(family, routev, i + 1, [acc EXCEPT !.attrs = TRUE])
             ELSE [acc EXCEPT !.err = ROUTE_SYNTAX]

_parse_ip_route(family, str) ==
    LET routev == nm_utils_strsplit_set(nm_strstrip_avoid_copy(str), {" ", "\t"})
    IN  IF StrvIsNull(routev) THEN ParseError(str)
        ELSE LET slash  == strchr(routev[1], "/")
                 dest   == IF slash # 0 THEN SubSeq(routev[1], 1, slash - 1) ELSE routev[1]
                 plen   == SubSeq(routev[1], slash + 1, Len(routev[1]))
                 prefix == IF slash # 0
                           THEN _nm_utils_ascii_str_to_int64(plen, 1, MAX_PREFIX(family), -1)
                           ELSE MAX_PREFIX(family)
                 acc    == _parse_ip_route_loop(family, routev, 2,
                               [next_hop |-> NULL, metric |-> -1, attrs |-> FALSE, err |-> NULL])
             IN  IF prefix = -1 THEN ParseError(InvalidPrefix(plen))
                 ELSE IF acc.err # NULL THEN ParseError(acc.err)
                 ELSE nm_ip_route_new(family, dest, prefix, acc.next_hop, acc.metric)

\* as for the addresses, line 3386 dereferences strv without a NULL check
RECURSIVE _set_fcn_ip4_config_routes_loop(_, _, _)
_set_fcn_ip4_config_routes_loop(o, strv, i) ==
    IF i > Len(strv) THEN Ok(o)
    ELSE LET route == _parse_ip_route(AF_INET, strv[i])
         IN  IF ~ route.ok THEN Err(o, route.err)
             ELSE _set_fcn_ip4_config_routes_loop(list_add(o, "routes", route.v), strv, i + 1)

_set_fcn_ip4_config_routes(o, value) ==
    IF _SET_FCN_DO_RESET_DEFAULT(value) THEN Ok([o EXCEPT !.routes = <<>>])
    ELSE LET strv == nm_utils_strsplit_set(value, {","})
         IN  IF StrvIsNull(strv) THEN Crash(o)
             ELSE _set_fcn_ip4_config_routes_loop(o, strv, 1)

_validate_and_remove_ipv4_route(o, value) ==
    LET route == _parse_ip_route(AF_INET, value)
    IN  IF ~ route.ok THEN Err(o, route.err)
        ELSE Ok(list_remove_by_value(o, "routes", route.v))

_remove_fcn_ipv4_config_routes(o, value) ==
    _DEFINE_REMOVER_INDEX_OR_VALUE(o, "routes", value,
        _validate_and_remove_ipv4_route(o, nm_strstrip_avoid_copy(value)))

(***************************************************************************)
(* Scalar setters.                                                         *)
(***************************************************************************)
\* the modelled string property has no property_typ_data: nothing validates
_set_fcn_gobject_string(o, p, value) ==
    IF _SET_FCN_DO_RESET_DEFAULT(value) THEN _gobject_property_reset_default(o, p)
    ELSE Ok([o EXCEPT ![p] = value])

TrueWords == {<<"1">>, <<"y", "e", "s">>, <<"t", "r", "u", "e">>, <<"o", "n">>}
FalseWords == {<<"0">>, <<"n", "o">>, <<"f", "a", "l", "s", "e">>, <<"o", "f", "f">>}
DefaultWords == {<<>>, <<"i", "g", "n", "o", "r", "e">>, <<"d", "e", "f", "a", "u", "l", "t">>}

\* [ok, val]: the text is one of the true words or one of the false words
nmc_string_to_bool(str) ==
    IF str \in TrueWords THEN [ok |-> TRUE, val |-> TRUE]
    ELSE IF str \in FalseWords THEN [ok |-> TRUE, val |-> FALSE]
    ELSE [ok |-> FALSE, val |-> FALSE]

\* the setter without its reset branch: NULL reaches the parser
_set_fcn_gobject_bool_no_reset(o, p, value) ==
    LET b == nmc_string_to_bool(value)
    IN  IF ~ b.ok THEN Err(o, value)
        ELSE Ok([o EXCEPT ![p] = b.val])

_set_fcn_gobject_bool(o, p, value) ==
    IF _SET_FCN_DO_RESET_DEFAULT(value) THEN _gobject_property_reset_default(o, p)
    ELSE LET b == nmc_string_to_bool(value)
         IN  IF ~ b.ok THEN Err(o, value)
             ELSE Ok([o EXCEPT ![p] = b.val])

ImmutableError == <<"Can not change the connection type">>

\* the setter with the reset branch ahead of the uuid check
_set_fcn_connection_type_reset_first(o, value, uuid) ==
    IF _SET_FCN_DO_RESET_DEFAULT(value) THEN Ok([o EXCEPT !.type = NULL])
    ELSE IF o.uuid # NULL THEN Err(o, ImmutableError)
    ELSE Ok([o EXCEPT !.uuid = uuid, !.type = value])

\* the setter without the uuid check
_set_fcn_connection_type_unchecked(o, value, uuid) ==
    IF _SET_FCN_DO_RESET_DEFAULT(value) THEN Ok([o EXCEPT !.type = NULL])
    ELSE Ok([o EXCEPT !.uuid = IF o.uuid = NULL THEN uuid ELSE o.uuid, !.type = value])

\* uuid is what nm_utils_uuid_generate() returns to this call
_set_fcn_connection_type(o, value, uuid) ==
    IF o.uuid # NULL THEN Err(o, ImmutableError)
    ELSE IF _SET_FCN_DO_RESET_DEFAULT(value) THEN Ok([o EXCEPT !.type = NULL])
    ELSE Ok([o EXCEPT !.uuid = uuid, !.type = value])

_set_fcn_ethtool(o, value) ==
    IF _SET_FCN_DO_RESET_DEFAULT(value) THEN Ok([o EXCEPT !.ethtool = "default"])
    ELSE LET v == nm_strstrip_avoid_copy(value)
         IN  IF v \in TrueWords THEN Ok([o EXCEPT !.ethtool = "true"])
             ELSE IF v \in FalseWords THEN Ok([o EXCEPT !.ethtool = "false"])
             ELSE IF v \in DefaultWords THEN Ok([o EXCEPT !.ethtool = "default"])
             ELSE Err(o, v)

(***************************************************************************)
(* Enumerations and flags: the GType classes of the library, the texts of  *)
(* their values, and the generic setter _set_fcn_gobject_enum.             *)
(***************************************************************************)
DigitChar(d) ==
    CASE d = 0 -> "0" [] d = 1 -> "1" [] d = 2 -> "2" [] d = 3 -> "3" [] d = 4 -> "4"
      [] d = 5 -> "5" [] d = 6 -> "6" [] d = 7 -> "7" [] d = 8 -> "8" [] d = 9 -> "9"
      [] d = 10 -> "a" [] d = 11 -> "b" [] d = 12 -> "c" [] d = 13 -> "d"
      [] d = 14 -> "e" [] d = 15 -> "f"

\* printf ("%u") and ("%x") of a number that is not negative
RECURSIVE FormatBase(_, _)
FormatBase(n, base) ==
    IF n < base THEN <<DigitChar(n)>>
    ELSE Append(FormatBase(n \div base, base), DigitChar(n % base))

\* printf ("%d")
FormatInt(v) == IF v < 0 THEN <<"-">> \o FormatBase(0 - v, 10) ELSE FormatBase(v, 10)

HexDigits == Digits \cup {"a", "b", "c", "d", "e", "f"}

HexDigitVal(c) ==
    CASE c = "a" -> 10 [] c = "b" -> 11 [] c = "c" -> 12 [] c = "d" -> 13
      [] c = "e" -> 14 [] c = "f" -> 15 [] OTHER -> DigitVal(c)

RECURSIVE HexValue(_, _)
HexValue(s, acc) ==
    IF s = <<>> THEN acc ELSE HexValue(Tail(s), acc * 16 + HexDigitVal(Head(s)))

\* a | b
RECURSIVE BitOr(_, _)
BitOr(a, b) ==
    IF a = 0 THEN b
    ELSE IF b = 0 THEN a
    ELSE (IF a % 2 = 1 \/ b % 2 = 1 THEN 1 ELSE 0) + 2 * BitOr(a \div 2, b \div 2)

\* a & ~b
RECURSIVE BitClear(_, _)
BitClear(a, b) ==
    IF a = 0 THEN 0
    ELSE (IF a % 2 = 1 /\ b % 2 = 0 THEN 1 ELSE 0) + 2 * BitClear(a \div 2, b \div 2)

\* the properties whose setter is _set_fcn_gobject_enum
EnumProps == {"mdns", "wep_key_type", "ip_tunnel_flags", "psk_flags"}

\* subtype.gobject_enum.get_gtype of the property, NULL when it has none
gobject_enum_get_gtype(p) ==
    CASE p = "mdns"            -> "NMSettingConnectionMdns"
      [] p = "ip_tunnel_flags" -> "NMIPTunnelFlags"
      [] OTHER                 -> "NULL"

\* the type of the GParamSpec of the property
pspec_value_type(p) ==
    CASE p = "mdns"            -> "G_TYPE_INT"
      [] p = "ip_tunnel_flags" -> "G_TYPE_UINT"
      [] p = "wep_key_type"    -> "NMWepKeyType"
      [] p = "psk_flags"       -> "NMSettingSecretFlags"
      [] p = "vlan_flags"      -> "NMVlanFlags"
      [] p \in {"priority_group_flags", "priority_flow_control_flags"}
                               -> "NMSettingDcbFlags"

\* the values of the classes, in the order of the class
GTypeClassValues(gtype) ==
    CASE gtype = "NMSettingConnectionMdns" ->
             << [value |-> -1, nick |-> <<"d", "e", "f", "a", "u", "l", "t">>], [value |-> 0, nick |-> <<"n", "o">>],
                [value |-> 1, nick |-> <<"r", "e", "s", "o", "l", "v", "e">>], [value |-> 2, nick |-> <<"y", "e", "s">>] >>
      [] gtype = "NMWepKeyType" ->
             << [value |-> 0, nick |-> <<"u", "n", "k", "n", "o", "w", "n">>], [value |-> 1, nick |-> <<"k", "e", "y">>],
                [value |-> 2, nick |-> <<"p", "a", "s", "s", "p", "h", "r", "a", "s", "e">>] >>
      [] gtype = "NMIPTunnelFlags" ->
             << [value |-> 0, nick |-> <<"n", "o", "n", "e">>],
                [value |-> 1, nick |-> <<"i", "p", "6", "-", "i", "g", "n", "-", "e", "n", "c", "a", "p", "-", "l", "i", "m", "i", "t">>],
                [value |-> 2, nick |-> <<"i", "p", "6", "-", "u", "s", "e", "-", "o", "r", "i", "g", "-", "t", "c", "l", "a", "s", "s">>],
                [value |-> 4, nick |-> <<"i", "p", "6", "-", "u", "s", "e", "-", "o", "r", "i", "g", "-", "f", "l", "o", "w", "l", "a", "b", "e", "l">>],
                [value |-> 8, nick |-> <<"i", "p", "6", "-", "m", "i", "p", "6", "-", "d", "e", "v">>],
                [value |-> 16, nick |-> <<"i", "p", "6", "-", "r", "c", "v", "-", "d", "s", "c", "p", "-", "c", "o", "p", "y">>],
                [value |-> 32, nick |-> <<"i", "p", "6", "-", "u", "s", "e", "-", "o", "r", "i", "g", "-", "f", "w", "m", "a", "r", "k">>] >>
      [] gtype = "NMSettingSecretFlags" ->
             << [value |-> 0, nick |-> <<"n", "o", "n", "e">>], [value |-> 1, nick |-> <<"a", "g", "e", "n", "t", "-", "o", "w", "n", "e", "d">>],
                [value |-> 2, nick |-> <<"n", "o", "t", "-", "s", "a", "v", "e", "d">>], [value |-> 4, nick |-> <<"n", "o", "t", "-", "r", "e", "q", "u", "i", "r", "e", "d">>] >>
      [] gtype = "NMVlanFlags" ->
             << [value |-> 1, nick |-> <<"r", "e", "o", "r", "d", "e", "r", "-", "h", "e", "a", "d", "e", "r", "s">>], [value |-> 2, nick |-> <<"g", "v", "r", "p">>],
                [value |-> 4, nick |-> <<"l", "o", "o", "s", "e", "-", "b", "i", "n", "d", "i", "n", "g">>], [value |-> 8, nick |-> <<"m", "v", "r", "p">>] >>
      [] gtype = "NMSettingDcbFlags" ->
             << [value |-> 0, nick |-> <<"n", "o", "n", "e">>], [value |-> 1, nick |-> <<"e", "n", "a", "b", "l", "e">>],
                [value |-> 2, nick |-> <<"a", "d", "v", "e", "r", "t", "i", "s", "e">>], [value |-> 4, nick |-> <<"w", "i", "l", "l", "i", "n", "g">>] >>

G_IS_FLAGS_CLASS(gtype) ==
    gtype \in {"NMIPTunnelFlags", "NMSettingSecretFlags", "NMVlanFlags", "NMSettingDcbFlags"}

G_IS_ENUM_CLASS(gtype) == gtype \in {"NMSettingConnectionMdns", "NMWepKeyType"}

\* all the bits of a flags class
RECURSIVE FlagsMask(_)
FlagsMask(values) ==
    IF values = <<>> THEN 0 ELSE BitOr(Head(values).value, FlagsMask(Tail(values)))

\* the nicks of the flags of the class that value has, in class order
RECURSIVE FlagsNicks(_, _)
FlagsNicks(values, value) ==
    IF values = <<>> THEN <<>>
    ELSE LET f == Head(values)
         IN  IF f.value # 0 /\ BitClear(f.value, value) = 0
             THEN <<f.nick>> \o FlagsNicks(Tail(values), value)
             ELSE FlagsNicks(Tail(values), value)

\* the text of a value: the nick of an enum value, the nicks of the flags
\* joined by the separator, the number for what the class does not name
_nm_utils_enum_to_str_full(gtype, value, sep) ==
    LET values == GTypeClassValues(gtype)
        named  == {i \in 1..Len(values) : values[i].value = value}
        rest   == BitClear(value, FlagsMask(values))
    IN  IF G_IS_ENUM_CLASS(gtype)
        THEN IF named # {} THEN values[CHOOSE i \in named : TRUE].nick ELSE FormatInt(value)
        ELSE IF value = 0
        THEN IF named # {} THEN values[CHOOSE i \in named : TRUE].nick ELSE <<>>
        ELSE JoinWith(FlagsNicks(values, value)
                        \o (IF rest # 0 THEN << <<"0", "x">> \o FormatBase(rest, 16) >> ELSE <<>>),
                      sep)

_is_hex_string(s) ==
    /\ Len(s) > 2 /\ s[1] = "0" /\ s[2] = "x"
    /\ \A i \in 3..Len(s) : s[i] \in HexDigits

_is_dec_string(s) == s # <<>> /\ \A i \in 1..Len(s) : s[i] \in Digits

\* the value one token spells: a hexadecimal or a decimal number, or a
\* nick of the class; -2 when it spells none
enum_token_value(gtype, tok) ==
    LET values == GTypeClassValues(gtype)
        named  == {i \in 1..Len(values) : values[i].nick = tok}
    IN  IF _is_hex_string(tok) THEN HexValue(SubSeq(tok, 3, Len(tok)), 0)
        ELSE IF _is_dec_string(tok) THEN DecValue(tok, 0)
        ELSE IF named # {} THEN values[CHOOSE i \in named : TRUE].value
        ELSE -2

RECURSIVE enum_from_str_flags(_, _, _, _)
enum_from_str_flags(gtype, toks, i, acc) ==
    IF i > Len(toks) THEN [ok |-> TRUE, v |-> acc]
    ELSE LET t == enum_token_value(gtype, toks[i])
         IN  IF t = -2 THEN [ok |-> FALSE, v |-> 0]
             ELSE enum_from_str_flags(gtype, toks, i + 1, BitOr(acc, t))

\* an enum is one number or nick, flags are tokens between blanks and commas
_nm_utils_enum_from_str_full(gtype, str) ==
    IF G_IS_ENUM_CLASS(gtype)
    THEN LET t == enum_token_value(gtype, g_strstrip(str))
         IN  IF t = -2 THEN [ok |-> FALSE, v |-> 0] ELSE [ok |-> TRUE, v |-> t]
    ELSE enum_from_str_flags(gtype, nm_utils_strsplit_set(str, {" ", "\t", ","}), 1, 0)

\* g_param_value_validate leaves the value as it is: a number of the range
\* of an integer property, a value of the enum, flags of the class
pspec_value_valid(p, v) ==
    LET vt == pspec_value_type(p)
        values == GTypeClassValues(vt)
    IN  CASE vt = "G_TYPE_INT"  -> v >= -1 /\ v <= 2
          [] vt = "G_TYPE_UINT" -> v >= 0
          [] G_IS_ENUM_CLASS(vt) -> \E i \in 1..Len(values) : values[i].value = v
          [] OTHER -> BitClear(v, FlagsMask(values)) = 0

\* TRUE when g_param_value_validate leaves the flags as they are
validate_flags(p, val) == pspec_value_valid(p, val)

nm_g_object_set_property(o, p, v) ==
    IF pspec_value_valid(p, v) THEN Ok([o EXCEPT ![p] = v]) ELSE Err(o, NULL)

NM_WEP_KEY_TYPE_UNKNOWN == 0
NM_WEP_KEY_TYPE_KEY == 1
NM_WEP_KEY_TYPE_PASSPHRASE == 2

\* a key of hexadecimal digits fits the type 'key', any text that is not
\* empty fits the type 'passphrase', and the unknown type takes both
nm_utils_wep_key_valid(key, type) ==
    LET hex == key # <<>> /\ \A i \in 1..Len(key) : key[i] \in HexDigits
    IN  CASE type = NM_WEP_KEY_TYPE_KEY        -> hex
          [] type = NM_WEP_KEY_TYPE_PASSPHRASE -> key # <<>>
          [] OTHER                             -> key # <<>>

wep_key_type_to_string(type) ==
    CASE type = NM_WEP_KEY_TYPE_KEY        -> l10n(FormatInt(type) \o <<" ", "(", "k", "e", "y", ")">>)
      [] type = NM_WEP_KEY_TYPE_PASSPHRASE -> l10n(FormatInt(type) \o <<" ", "(", "p", "a", "s", "s", "p", "h", "r", "a", "s", "e", ")">>)
      [] OTHER                             -> l10n(FormatInt(type) \o <<" ", "(", "u", "n", "k", "n", "o", "w", "n", ")">>)

NotCompatibleWithType(type) == <<"w", "e", "p", "-", "k", "e", "y", "0", " ", "i", "s", " ", "n", "o", "t", " ", "c", "o", "m", "p", "a", "t", "i", "b", "l", "e", " ", "w", "i", "t", "h", " ", "t", "y", "p", "e", " ">> \o wep_key_type_to_string(type)

\* the warning about the keys that do not fit the new type, NULL when the
\* handler gives none
_gobject_enum_pre_set_notify_fcn_wireless_security_wep_key_type(o, value) ==
    IF value \notin {NM_WEP_KEY_TYPE_UNKNOWN, NM_WEP_KEY_TYPE_KEY, NM_WEP_KEY_TYPE_PASSPHRASE}
    THEN NULL
    ELSE IF o.wep_key0 # NULL /\ ~ nm_utils_wep_key_valid(o.wep_key0, value)
    THEN NotCompatibleWithType(value)
    ELSE NULL

gobject_enum_has_pre_set_notify(p) == p = "wep_key_type"

InvalidEnumOption(value) == <<"i", "n", "v", "a", "l", "i", "d", " ", "o", "p", "t", "i", "o", "n", " ">> \o value

_set_fcn_gobject_enum(o, p, value) ==
    IF _SET_FCN_DO_RESET_DEFAULT(value) THEN _gobject_property_reset_default(o, p)
    ELSE LET gtype == IF gobject_enum_get_gtype(p) # "NULL" THEN gobject_enum_get_gtype(p)
                      ELSE pspec_value_type(p)
             r     == _nm_utils_enum_from_str_full(gtype, value)
             warn  == IF gobject_enum_has_pre_set_notify(p)
                      THEN _gobject_enum_pre_set_notify_fcn_wireless_security_wep_key_type(o, r.v)
                      ELSE NULL
         IN  IF ~ r.ok THEN Err(o, InvalidEnumOption(value))
             ELSE IF nm_g_object_set_property(o, p, r.v).res # "ok"
             THEN Warn(Err(o, InvalidEnumOption(value)), warn)
             ELSE Warn(nm_g_object_set_property(o, p, r.v), warn)

NotAValidNumber(value) == <<"i", "s", " ", "n", "o", "t", " ", "a", " ", "v", "a", "l", "i", "d", " ", "n", "u", "m", "b", "e", "r", " ", "(", "o", "r", " ", "o", "u", "t", " ", "o", "f", " ", "r", "a", "n", "g", "e", ")", " ">> \o value

\* the text as an unsigned number, -1 when it is none
nmc_string_to_uint(str) == _nm_utils_ascii_str_to_int64(str, 0, G_MAXUINT32, -1)

_set_fcn_gobject_flags(o, p, value) ==
    IF _SET_FCN_DO_RESET_DEFAULT(value) THEN _gobject_property_reset_default(o, p)
    ELSE LET val_int == nmc_string_to_uint(value)
         IN  IF val_int = -1 THEN Err(o, NotAValidNumber(value))
             ELSE IF ~ validate_flags(p, val_int) THEN Err(o, value)
             ELSE Ok([o EXCEPT ![p] = val_int])

WepKeyNotValid(value) == <<"i", "s", " ", "n", "o", "t", " ", "v", "a", "l", "i", "d", " ">> \o value
WepKeyGuessed(type) == <<"W", "E", "P", " ", "k", "e", "y", " ", "i", "s", " ", "g", "u", "e", "s", "s", "e", "d", " ", "t", "o", " ", "b", "e", " ", "o", "f", " ">> \o wep_key_type_to_string(type)

\* only wep-key0 is modelled: its index is the tx key index the setting
\* starts with, so the index is never changed
_set_fcn_wireless_wep_key(o, p, value) ==
    IF _SET_FCN_DO_RESET_DEFAULT(value) THEN Ok([o EXCEPT ![p] = NULL])
    ELSE LET type    == o.wep_key_type
             guessed == IF nm_utils_wep_key_valid(value, NM_WEP_KEY_TYPE_KEY)
                        THEN NM_WEP_KEY_TYPE_KEY
                        ELSE IF nm_utils_wep_key_valid(value, NM_WEP_KEY_TYPE_PASSPHRASE)
                        THEN NM_WEP_KEY_TYPE_PASSPHRASE
                        ELSE NM_WEP_KEY_TYPE_UNKNOWN
         IN  IF guessed = NM_WEP_KEY_TYPE_UNKNOWN THEN Err(o, WepKeyNotValid(value))
             ELSE IF type # NM_WEP_KEY_TYPE_UNKNOWN /\ type # guessed
                     /\ ~ nm_utils_wep_key_valid(value, type)
             THEN Err(o, NotCompatibleWithType(type))
             ELSE LET final == IF type # NM_WEP_KEY_TYPE_UNKNOWN /\ type # guessed
                               THEN type ELSE guessed
                  IN  Warn(Ok([o EXCEPT ![p] = value, !.wep_key_type = final]),
                           WepKeyGuessed(final))

(***************************************************************************)
(* The DCB setting: the flags properties and the arrays of 8 slots.        *)
(***************************************************************************)
NM_SETTING_DCB_FLAG_ENABLE == 1
NM_SETTING_DCB_FLAG_ADVERTISE == 2
NM_SETTING_DCB_FLAG_WILLING == 4
DCB_ALL_FLAGS == 7

\* flags & bit, flags | bit for a bit that is a power of two
HasFlag(flags, bit) == (flags \div bit) % 2 = 1
WithFlag(flags, bit) == IF HasFlag(flags, bit) THEN flags ELSE flags + bit

g_ascii_tolower(c) ==
    CASE c = "A" -> "a" [] c = "B" -> "b" [] c = "D" -> "d" [] c = "E" -> "e"
      [] c = "G" -> "g" [] c = "I" -> "i" [] c = "L" -> "l" [] c = "N" -> "n"
      [] c = "R" -> "r" [] c = "S" -> "s" [] c = "T" -> "t" [] c = "V" -> "v"
      [] c = "W" -> "w" [] OTHER -> c

\* TRUE when g_ascii_strcasecmp (a, b) == 0
g_ascii_strcasecmp(a, b) ==
    Len(a) = Len(b) /\ \A i \in 1..Len(a) : g_ascii_tolower(a[i]) = g_ascii_tolower(b[i])

Text_enable == <<"e", "n", "a", "b", "l", "e">>
Text_enabled == Text_enable \o <<"d">>
Text_advertise == <<"a", "d", "v", "e", "r", "t", "i", "s", "e">>
Text_willing == <<"w", "i", "l", "l", "i", "n", "g">>
Text_disable == <<"d", "i", "s", "a", "b", "l", "e">>
Text_disabled == Text_disable \o <<"d">>

NotAValidDcbFlag(tok) == <<"is not a valid DCB flag">> \o tok

\* the loop over the flag names or numbers; flags is -1 once a token failed
RECURSIVE _set_fcn_dcb_flags_loop(_, _, _)
_set_fcn_dcb_flags_loop(strv, i, flags) ==
    IF i > Len(strv) THEN [flags |-> flags, err |-> NULL]
    ELSE LET tok == strv[i]
             t   == _nm_utils_ascii_str_to_int64(tok, 0, DCB_ALL_FLAGS, -1)
         IN  IF    g_ascii_strcasecmp(tok, Text_enable)
                \/ g_ascii_strcasecmp(tok, Text_enabled)
                \/ t = NM_SETTING_DCB_FLAG_ENABLE
             THEN _set_fcn_dcb_flags_loop(strv, i + 1, WithFlag(flags, NM_SETTING_DCB_FLAG_ENABLE))
             ELSE IF g_ascii_strcasecmp(tok, Text_advertise) \/ t = NM_SETTING_DCB_FLAG_ADVERTISE
             THEN _set_fcn_dcb_flags_loop(strv, i + 1, WithFlag(flags, NM_SETTING_DCB_FLAG_ADVERTISE))
             ELSE IF g_ascii_strcasecmp(tok, Text_willing) \/ t = NM_SETTING_DCB_FLAG_WILLING
             THEN _set_fcn_dcb_flags_loop(strv, i + 1, WithFlag(flags, NM_SETTING_DCB_FLAG_WILLING))
             ELSE IF    g_ascii_strcasecmp(tok, Text_disable)
                     \/ g_ascii_strcasecmp(tok, Text_disabled)
                     \/ t = 0
             THEN _set_fcn_dcb_flags_loop(strv, i + 1, flags)
             ELSE [flags |-> flags, err |-> NotAValidDcbFlag(tok)]

_set_fcn_dcb_flags(o, p, value) ==
    IF _SET_FCN_DO_RESET_DEFAULT(value) THEN _gobject_property_reset_default(o, p)
    \* the numbers are read in base 0; the texts explored spell decimal ones
    ELSE LET t == _nm_utils_ascii_str_to_int64(value, 0, DCB_ALL_FLAGS, -1)
             r == IF t # -1 THEN [flags |-> t, err |-> NULL]
                  ELSE _set_fcn_dcb_flags_loop(
                           nm_utils_strsplit_set(value, {" ", "\t", ","}), 1, 0)
         IN  IF r.err # NULL THEN Err(o, r.err)
             ELSE IF ~ validate_flags(p, r.flags) THEN Err(o, value)
             ELSE Ok([o EXCEPT ![p] = r.flags])

\* the slots of a DCB array
DcbSlots == 8

\* g_strsplit_set: the tokens between delimiters, the empty ones kept; the
\* empty text has no token
RECURSIVE GSplitAcc(_, _, _, _)
GSplitAcc(s, delims, cur, acc) ==
    IF s = <<>> THEN Append(acc, cur)
    ELSE IF Head(s) \in delims THEN GSplitAcc(Tail(s), delims, <<>>, Append(acc, cur))
    ELSE GSplitAcc(Tail(s), delims, Append(cur, Head(s)), acc)

g_strsplit_set(s, delims) == IF s = <<>> THEN <<>> ELSE GSplitAcc(s, delims, <<>>, <<>>)

DcbArrayProps == {"priority_group_id", "priority_group_bandwidth"}
DcbBoolProps == {"priority_flow_control"}
DcbFlagsProps == {"priority_group_flags", "priority_flow_control_flags"}

\* property_typ_data->subtype.dcb of the property
dcb_max(p) == IF p = "priority_group_id" THEN 7 ELSE 100
dcb_other(p) == IF p = "priority_group_id" THEN 15 ELSE 0
dcb_is_percent(p) == p = "priority_group_bandwidth"
dcb_bool_with_flow_control_flags(p) == p = "priority_flow_control"

MustContain8 == <<"must contain 8 comma-separated numbers">>
NotANumberBetween(item) == <<"not a number between 0 and max">> \o item
MustTotal100 == <<"bandwidth percentages must total 100%">>

RECURSIVE dcb_parse_uint_array_loop_upto_other(_, _, _, _, _)
dcb_parse_uint_array_loop_upto_other(items, max, other, i, out) ==
    IF i > Len(items) THEN Parsed(out)
    ELSE LET item == g_strstrip(items[i])
             num  == _nm_utils_ascii_str_to_int64(item, 0, IF other # 0 THEN other ELSE max, -1)
         IN  IF num = -1 THEN ParseError(NotANumberBetween(item))
             ELSE dcb_parse_uint_array_loop_upto_other(items, max, other, i + 1, Append(out, num))

\* the loop over the items; out is the array filled so far
RECURSIVE dcb_parse_uint_array_loop(_, _, _, _, _)
dcb_parse_uint_array_loop(items, max, other, i, out) ==
    IF i > Len(items) THEN Parsed(out)
    ELSE LET item == g_strstrip(items[i])
             num  == _nm_utils_ascii_str_to_int64(item, 0, IF other # 0 THEN other ELSE max, -1)
         IN  IF num = -1 \/ (other # 0 /\ num > max /\ num # other)
             THEN ParseError(NotANumberBetween(item))
             ELSE dcb_parse_uint_array_loop(items, max, other, i + 1, Append(out, num))

dcb_parse_uint_array(val, max, other) ==
    LET items == g_strsplit_set(val, {","})
    IN  IF Len(items) # DcbSlots THEN ParseError(MustContain8)
        ELSE dcb_parse_uint_array_loop(items, max, other, 1, <<>>)

\* the warning the environment is handed, NULL when there is none
dcb_check_feature_enabled(o, flags_prop) ==
    IF ~ HasFlag(o[flags_prop], NM_SETTING_DCB_FLAG_ENABLE)
    THEN <<"changes will have no effect until flags include 1 (enabled)">>
    ELSE NULL

\* sum over nums[0..i-1], stopping once an item or the sum is above 100
RECURSIVE dcb_percent_sum(_, _, _)
dcb_percent_sum(nums, i, sum) ==
    IF i > DcbSlots THEN sum
    ELSE IF nums[i] > 100 \/ sum + nums[i] > 100 THEN sum + nums[i]
    ELSE dcb_percent_sum(nums, i + 1, sum + nums[i])

_set_fcn_dcb_warning_blocks(o, p, value) ==
    IF _SET_FCN_DO_RESET_DEFAULT(value) THEN _gobject_property_reset_default(o, p)
    ELSE LET nums == dcb_parse_uint_array(value, dcb_max(p), dcb_other(p))
             warn == dcb_check_feature_enabled(o, "priority_group_flags")
         IN  IF ~ nums.ok THEN Err(o, nums.err)
             ELSE IF dcb_is_percent(p) /\ dcb_percent_sum(nums.v, 1, 0) # 100
             THEN Err(o, MustTotal100)
             ELSE IF warn # NULL THEN Warn(Ok(o), warn)
             ELSE Ok([o EXCEPT ![p] = nums.v])

_set_fcn_dcb(o, p, value) ==
    IF _SET_FCN_DO_RESET_DEFAULT(value) THEN _gobject_property_reset_default(o, p)
    ELSE LET nums == dcb_parse_uint_array(value, dcb_max(p), dcb_other(p))
         IN  IF ~ nums.ok THEN Err(o, nums.err)
             ELSE IF dcb_is_percent(p) /\ dcb_percent_sum(nums.v, 1, 0) # 100
             THEN Err(o, MustTotal100)
             ELSE LET o2 == [o EXCEPT ![p] = nums.v]
                  IN  Warn(Ok(o2), dcb_check_feature_enabled(o2, "priority_group_flags"))

_set_fcn_dcb_bool(o, p, value) ==
    IF _SET_FCN_DO_RESET_DEFAULT(value) THEN _gobject_property_reset_default(o, p)
    ELSE LET nums == dcb_parse_uint_array(value, 1, 0)
         IN  IF ~ nums.ok THEN Err(o, nums.err)
             ELSE LET o2 == [o EXCEPT ![p] = [i \in 1..DcbSlots |-> nums.v[i] # 0]]
                  IN  Warn(Ok(o2), dcb_check_feature_enabled(o2,
                               IF dcb_bool_with_flow_control_flags(p)
                               THEN "priority_flow_control_flags"
                               ELSE "priority_group_flags"))

(***************************************************************************)
(* The VLAN priority maps and the MAC blacklists: the whole text is         *)
(* validated before the first element is added.                            *)
(***************************************************************************)
MAX_SKB_PRIO == G_MAXUINT32
MAX_8021P_PRIO == 7
ETH_ALEN == 6
NM_VLAN_INGRESS_MAP == "NM_VLAN_INGRESS_MAP"
NM_VLAN_EGRESS_MAP == "NM_VLAN_EGRESS_MAP"

VlanMapProps == {"ingress_priority_map", "egress_priority_map"}
MacBlacklistProps == {"mac_address_blacklist"}

_vlan_priority_map_type_from_property_info(p) ==
    IF p = "ingress_priority_map" THEN NM_VLAN_INGRESS_MAP ELSE NM_VLAN_EGRESS_MAP

InvalidPriorityMap(item) == <<"invalid priority map '">> \o item \o <<"'">>
NotAValidMAC(item) == <<"'">> \o item \o <<"' is not a valid MAC">>

\* "from:to", or with the wildcard allowed "from" and "from:*"; from is at
\* most 7 in an ingress map, to is at most 7 in an egress map
nm_utils_vlan_priority_map_parse_str(map_type, str, allow_wildcard_to) ==
    LET parts    == g_strsplit_set(str, {":"})
        from_max == IF map_type = NM_VLAN_INGRESS_MAP THEN MAX_8021P_PRIO ELSE MAX_SKB_PRIO
        to_max   == IF map_type = NM_VLAN_INGRESS_MAP THEN MAX_SKB_PRIO ELSE MAX_8021P_PRIO
        from     == IF Len(parts) >= 1
                    THEN _nm_utils_ascii_str_to_int64(parts[1], 0, from_max, -1) ELSE -1
        wildcard == Len(parts) = 1 \/ (Len(parts) = 2 /\ parts[2] = <<"*">>)
        to       == IF Len(parts) = 2 /\ ~ wildcard
                    THEN _nm_utils_ascii_str_to_int64(parts[2], 0, to_max, -1) ELSE -1
    IN  IF Len(parts) \notin {1, 2} \/ from = -1 THEN ParseError(str)
        ELSE IF wildcard
        THEN IF allow_wildcard_to THEN Parsed([from |-> from, to |-> -1]) ELSE ParseError(str)
        ELSE IF to = -1 THEN ParseError(str)
        ELSE Parsed([from |-> from, to |-> to])

\* g_strsplit() keeps the empty items; every item has to be a mapping
_parse_vlan_priority_maps(priority_map, map_type, allow_wildcard_to) ==
    LET mapping == g_strsplit_set(priority_map, {","})
        bad     == {i \in 1..Len(mapping) :
                       ~ nm_utils_vlan_priority_map_parse_str(map_type, mapping[i],
                                                              allow_wildcard_to).ok}
    IN  IF bad = {} THEN Parsed(mapping)
        ELSE ParseError(InvalidPriorityMap(mapping[CHOOSE i \in bad : \A j \in bad : i <= j]))

\* a mapping of a priority that the map already holds replaces its target,
\* another one is added to the map
nm_setting_vlan_add_priority_str(map, map_type, str) ==
    LET item == nm_utils_vlan_priority_map_parse_str(map_type, str, FALSE)
    IN  IF ~ item.ok THEN map
        ELSE IF \E i \in 1..Len(map) : map[i].from = item.v.from
        THEN [i \in 1..Len(map) |-> IF map[i].from = item.v.from THEN item.v ELSE map[i]]
        ELSE Append(map, item.v)

RECURSIVE _set_fcn_vlan_xgress_priority_map_add(_, _, _, _)
_set_fcn_vlan_xgress_priority_map_add(map, map_type, prio_map, i) ==
    IF i > Len(prio_map) THEN map
    ELSE _set_fcn_vlan_xgress_priority_map_add(
             nm_setting_vlan_add_priority_str(map, map_type, prio_map[i]), map_type, prio_map, i + 1)

\* a variant that adds each mapping as soon as it has been validated
RECURSIVE _set_fcn_vlan_xgress_priority_map_stepwise(_, _, _)
_set_fcn_vlan_xgress_priority_map_stepwise(o, p, value) ==
    LET map_type == _vlan_priority_map_type_from_property_info(p)
        mapping  == IF value = NULL THEN <<>> ELSE g_strsplit_set(value, {","})
    IN  IF _SET_FCN_DO_RESET_DEFAULT(value) THEN _gobject_property_reset_default(o, p)
        ELSE IF mapping = <<>> THEN Ok(o)
        ELSE IF ~ nm_utils_vlan_priority_map_parse_str(map_type, mapping[1], FALSE).ok
        THEN Err(o, InvalidPriorityMap(mapping[1]))
        ELSE _set_fcn_vlan_xgress_priority_map_stepwise(
                 [o EXCEPT ![p] = nm_setting_vlan_add_priority_str(@, map_type, mapping[1])],
                 p, JoinWith(Tail(mapping), <<",">>))

_set_fcn_vlan_xgress_priority_map(o, p, value) ==
    LET map_type == _vlan_priority_map_type_from_property_info(p)
    IN  IF _SET_FCN_DO_RESET_DEFAULT(value) THEN _gobject_property_reset_default(o, p)
        ELSE LET prio_map == _parse_vlan_priority_maps(value, map_type, FALSE)
             IN  IF ~ prio_map.ok THEN Err(o, prio_map.err)
                 ELSE Ok([o EXCEPT ![p] = _set_fcn_vlan_xgress_priority_map_add(
                                               @, map_type, prio_map.v, 1)])

\* the octets of the text: len groups of one or two hex digits, separated
\* by ':' or '-'
nm_utils_hwaddr_aton(asc, len) ==
    LET groups == g_strsplit_set(asc, {":", "-"})
    IN  IF /\ Len(groups) = len
           /\ \A i \in 1..Len(groups) :
                 /\ Len(groups[i]) \in {1, 2}
                 /\ \A j \in 1..Len(groups[i]) : groups[i][j] \in HexDigits
        THEN Parsed([i \in 1..len |-> HexValue(groups[i], 0)])
        ELSE ParseError(asc)

\* the address is added to the list
nm_setting_wired_add_mac_blacklist_item(list, mac) ==
    IF ~ nm_utils_hwaddr_aton(mac, ETH_ALEN).ok THEN list ELSE Append(list, mac)

RECURSIVE _set_fcn_wired_mac_address_blacklist_add(_, _, _)
_set_fcn_wired_mac_address_blacklist_add(list, strv, i) ==
    IF i > Len(strv) THEN list
    ELSE _set_fcn_wired_mac_address_blacklist_add(
             nm_setting_wired_add_mac_blacklist_item(list, strv[i]), strv, i + 1)

\* DEFINE_SETTER_MAC_BLACKLIST
_set_fcn_wired_mac_address_blacklist(o, p, value) ==
    IF _SET_FCN_DO_RESET_DEFAULT(value) THEN _gobject_property_reset_default(o, p)
    ELSE LET strv == nm_utils_strsplit_set(value, {" ", "\t", ","})
             bad  == {i \in 1..Len(strv) : ~ nm_utils_hwaddr_aton(strv[i], ETH_ALEN).ok}
         IN  IF bad # {}
             THEN Err(o, NotAValidMAC(strv[CHOOSE i \in bad : \A j \in bad : i <= j]))
             ELSE Ok([o EXCEPT ![p] = _set_fcn_wired_mac_address_blacklist_add(@, strv, 1)])

(***************************************************************************)
(* The DNS options and the tx-hash of the team runner.                     *)
(***************************************************************************)
\* the options of the setting: none while the list is unset
nm_setting_ip_config_get_dns_options(o) == IF o.dns_options = NULL THEN <<>> ELSE o.dns_options

nm_setting_ip_config_remove_dns_option_by_value(o, dns_option) ==
    IF o.dns_options = NULL THEN o
    ELSE [o EXCEPT !.dns_options = SelectSeq(@, LAMBDA e : e # dns_option)]

nm_setting_ip_config_add_dns_option(o, dns_option) ==
    [o EXCEPT !.dns_options = Append(nm_setting_ip_config_get_dns_options(o), dns_option)]

\* a variant of the loop that adds the option without removing it first
RECURSIVE _set_fcn_ip_config_dns_options_loop_add_only(_, _, _)
_set_fcn_ip_config_dns_options_loop_add_only(o, strv, i) ==
    IF i > Len(strv) THEN o
    ELSE _set_fcn_ip_config_dns_options_loop_add_only(
             nm_setting_ip_config_add_dns_option(o, strv[i]), strv, i + 1)

RECURSIVE _set_fcn_ip_config_dns_options_loop(_, _, _)
_set_fcn_ip_config_dns_options_loop(o, strv, i) ==
    IF i > Len(strv) THEN o
    ELSE _set_fcn_ip_config_dns_options_loop(
             nm_setting_ip_config_add_dns_option(
                 nm_setting_ip_config_remove_dns_option_by_value(o, strv[i]), strv[i]),
             strv, i + 1)

_set_fcn_ip_config_dns_options(o, p, value) ==
    IF _SET_FCN_DO_RESET_DEFAULT(value) THEN _gobject_property_reset_default(o, p)
    ELSE LET strv == nm_utils_strsplit_set(value, {" ", "\t", ","})
         IN  IF StrvIsNull(strv) THEN Ok(o)
             ELSE Ok(_set_fcn_ip_config_dns_options_loop(o, strv, 1))

TxHashNotValid(tx_hash_element) ==
    <<"'">> \o tx_hash_element
      \o <<"' is not valid. Valid tx-hashes: [eth, vlan, ipv4, ipv6, ip, l3, tcp, udp, sctp, l4]">>

_is_valid_team_runner_tx_hash_element(tx_hash_element) ==
    tx_hash_element \in {<<"e", "t", "h">>, <<"v", "l", "a", "n">>, <<"i", "p", "v", "4">>, <<"i", "p", "v", "6">>, <<"i", "p">>, <<"l", "3">>, <<"t", "c", "p">>, <<"u", "d", "p">>, <<"s", "c", "t", "p">>, <<"l", "4">>}

\* a variant that adds the items to the list it finds
_set_fcn_team_runner_tx_hash_appending(o, p, value) ==
    IF _SET_FCN_DO_RESET_DEFAULT(value) THEN _gobject_property_reset_default(o, p)
    ELSE LET strv == nm_utils_strsplit_set(value, {" ", "\t", ","})
             bad  == {i \in 1..Len(strv) : ~ _is_valid_team_runner_tx_hash_element(strv[i])}
         IN  IF bad # {}
             THEN Err(o, TxHashNotValid(strv[CHOOSE i \in bad : \A j \in bad : i <= j]))
             ELSE Ok([o EXCEPT ![p] = @ \o strv])

\* every item is validated, the list is emptied from its head, and the
\* items are added in their order
_set_fcn_team_runner_tx_hash(o, p, value) ==
    IF _SET_FCN_DO_RESET_DEFAULT(value) THEN _gobject_property_reset_default(o, p)
    ELSE LET strv == nm_utils_strsplit_set(value, {" ", "\t", ","})
             bad  == {i \in 1..Len(strv) : ~ _is_valid_team_runner_tx_hash_element(strv[i])}
         IN  IF bad # {}
             THEN Err(o, TxHashNotValid(strv[CHOOSE i \in bad : \A j \in bad : i <= j]))
             ELSE Ok([o EXCEPT ![p] = strv])

(***************************************************************************)
(* Getters.  A getter gives the text and what it stores in *out_is_default *)
(* ("UNSET" when it leaves the caller's variable alone).                   *)
(***************************************************************************)
NM_META_TEXT_HIDDEN == <<"<hidden>">>

Got(ret, is_default) == [ret |-> ret, is_default |-> is_default]

BoolText(b) == IF b THEN "TRUE" ELSE "FALSE"

_get_text_hidden(get_type) ==
    IF get_type = "pretty" THEN l10n(NM_META_TEXT_HIDDEN) ELSE NM_META_TEXT_HIDDEN

\* g_object_get_property() into a G_TYPE_STRING value: a string list is
\* transformed to its items joined by commas
g_value_dup_string(o, p) == IF p \in ListProps THEN JoinWith(o[p], <<",">>) ELSE o[p]

_gobject_property_get_gtype(p) ==
    IF p = "autoconnect" THEN "G_TYPE_BOOLEAN"
    ELSE IF p \in ListProps THEN "G_TYPE_STRV"
    ELSE "G_TYPE_STRING"

_get_fcn_gobject_impl(o, p, get_type) ==
    IF _gobject_property_get_gtype(p) = "G_TYPE_BOOLEAN"
    THEN LET s_c == IF o[p] THEN <<"y", "e", "s">> ELSE <<"n", "o">>
         IN  Got(IF get_type = "pretty" THEN l10n(s_c) ELSE s_c,
                 BoolText(_gobject_property_is_default(o, p)))
    ELSE Got(g_value_dup_string(o, p), BoolText(_gobject_property_is_default(o, p)))

_get_fcn_gobject(o, p, get_type) == _get_fcn_gobject_impl(o, p, get_type)

_get_fcn_ethtool(o, get_type) ==
    LET s == IF o.ethtool = "true" THEN <<"o", "n">>
             ELSE IF o.ethtool = "false" THEN <<"o", "f", "f">>
             ELSE NULL
    IN  Got(IF s # NULL /\ get_type = "pretty" THEN l10n(s) ELSE s,
            IF s = NULL THEN "TRUE" ELSE "UNSET")

\* the rendering flags of the property (typ_flags), and whether it has
\* property_typ_data at all
gobject_enum_typ_flags(p) ==
    IF p = "wep_key_type" THEN {"ENUM_GET_PARSABLE_TEXT", "ENUM_GET_PRETTY_TEXT"} ELSE {}

has_property_typ_data(p) == p \in {"mdns", "ip_tunnel_flags", "wep_key_type"}

\* lines 925-955: what the getter formats, from the flags and the get type
_get_fcn_gobject_enum_format(has_typ_data, typ_flags, get_type) ==
    LET none == [format_numeric |-> FALSE, format_numeric_hex |-> FALSE,
                 format_numeric_hex_unknown |-> FALSE, format_text |-> FALSE,
                 format_text_l10n |-> FALSE]
    IN  IF    has_typ_data /\ get_type = "pretty"
           /\ typ_flags \cap {"ENUM_GET_PRETTY_NUMERIC", "ENUM_GET_PRETTY_NUMERIC_HEX",
                              "ENUM_GET_PRETTY_TEXT", "ENUM_GET_PRETTY_TEXT_L10N"} # {}
        THEN [none EXCEPT
                !.format_numeric_hex = "ENUM_GET_PRETTY_NUMERIC_HEX" \in typ_flags,
                !.format_numeric = "ENUM_GET_PRETTY_NUMERIC_HEX" \in typ_flags
                                   \/ "ENUM_GET_PRETTY_NUMERIC" \in typ_flags,
                !.format_text_l10n = "ENUM_GET_PRETTY_TEXT_L10N" \in typ_flags,
                !.format_text = "ENUM_GET_PRETTY_TEXT_L10N" \in typ_flags
                                \/ "ENUM_GET_PRETTY_TEXT" \in typ_flags]
        ELSE IF    has_typ_data /\ get_type # "pretty"
                /\ typ_flags \cap {"ENUM_GET_PARSABLE_NUMERIC", "ENUM_GET_PARSABLE_NUMERIC_HEX",
                                   "ENUM_GET_PARSABLE_TEXT"} # {}
        THEN [none EXCEPT
                !.format_numeric_hex = "ENUM_GET_PARSABLE_NUMERIC_HEX" \in typ_flags,
                \* line 941: format_numeric && ..., with format_numeric still FALSE
                !.format_numeric = FALSE /\ "ENUM_GET_PARSABLE_NUMERIC" \in typ_flags,
                !.format_text = "ENUM_GET_PARSABLE_TEXT" \in typ_flags]
        ELSE IF get_type = "pretty"
        THEN [none EXCEPT !.format_numeric = TRUE, !.format_numeric_hex_unknown = TRUE,
                          !.format_text = TRUE, !.format_text_l10n = TRUE]
        ELSE [none EXCEPT !.format_numeric = TRUE, !.format_numeric_hex_unknown = TRUE]

\* "0x%" G_GINT64_FORMAT and "%" G_GINT64_FORMAT: both print the decimal digits
enum_s_numeric(fmt, gtype, v) ==
    IF fmt.format_numeric_hex \/ (fmt.format_numeric_hex_unknown /\ ~ G_IS_ENUM_CLASS(gtype))
    THEN <<"0", "x">> \o FormatInt(v)
    ELSE FormatInt(v)

\* the getter for a descriptor with the given property_typ_data->typ_flags
_get_fcn_gobject_enum_typ_flags(o, p, has_typ_data, typ_flags, get_type) ==
    LET fmt   == _get_fcn_gobject_enum_format(has_typ_data, typ_flags, get_type)
        gtype == IF gobject_enum_get_gtype(p) # "NULL" THEN gobject_enum_get_gtype(p)
                 ELSE pspec_value_type(p)
        v     == o[p]
        s     == _nm_utils_enum_to_str_full(gtype, v, <<",", " ">>)
        s_numeric == enum_s_numeric(fmt, gtype, v)
        is_default == BoolText(_gobject_property_is_default(o, p))
    IN  IF fmt.format_numeric /\ ~ fmt.format_text THEN Got(s_numeric, is_default)
        ELSE IF ~ fmt.format_numeric THEN Got(s, is_default)
        ELSE IF s = s_numeric THEN Got(s, is_default)
        ELSE IF fmt.format_text_l10n
        THEN Got(l10n(s_numeric \o <<" ", "(">> \o s \o <<")">>), is_default)
        ELSE Got(s_numeric \o <<" ", "(">> \o s \o <<")">>, is_default)

_get_fcn_gobject_enum(o, p, get_type) ==
    _get_fcn_gobject_enum_typ_flags(o, p, has_property_typ_data(p), gobject_enum_typ_flags(p),
                                    get_type)

\* nm_assert (format_text || format_numeric), line 955
_get_fcn_gobject_enum_assert(fmt) == fmt.format_text \/ fmt.format_numeric

\* the flags NM_META_PROPERTY_TYP_FLAG_ENUM_GET_*
NM_META_PROPERTY_TYP_FLAG_ENUM_GET ==
    {"ENUM_GET_PRETTY_NUMERIC", "ENUM_GET_PRETTY_NUMERIC_HEX", "ENUM_GET_PRETTY_TEXT",
     "ENUM_GET_PRETTY_TEXT_L10N", "ENUM_GET_PARSABLE_NUMERIC", "ENUM_GET_PARSABLE_NUMERIC_HEX",
     "ENUM_GET_PARSABLE_TEXT"}

\* the names of the flags that are set, with ", " between them; "unknown"
\* when there is none
RECURSIVE FlagNames(_, _)
FlagNames(names, flags) ==
    IF names = <<>> THEN <<>>
    ELSE (IF HasFlag(flags, Head(names).value) THEN <<l10n(Head(names).name)>> ELSE <<>>)
         \o FlagNames(Tail(names), flags)

FlagsInParentheses(names, flags) ==
    LET flag_str == JoinWith(FlagNames(names, flags), <<",", " ">>)
    IN  FormatInt(flags) \o <<" ", "(">>
        \o (IF flag_str = <<>> THEN l10n(<<"u", "n", "k", "n", "o", "w", "n">>) ELSE flag_str)
        \o <<")">>

secret_flags_to_string(flags, get_type) ==
    IF get_type # "pretty" THEN FormatInt(flags)
    ELSE IF flags = 0 THEN l10n(<<"0", " ", "(", "n", "o", "n", "e", ")">>)
    ELSE FlagsInParentheses(<< [value |-> 1, name |-> <<"a", "g", "e", "n", "t", "-", "o", "w", "n", "e", "d">>],
                               [value |-> 2, name |-> <<"n", "o", "t", " ", "s", "a", "v", "e", "d">>],
                               [value |-> 4, name |-> <<"n", "o", "t", " ", "r", "e", "q", "u", "i", "r", "e", "d">>] >>, flags)

_get_fcn_gobject_secret_flags(o, p, get_type) ==
    Got(secret_flags_to_string(o[p], get_type), "UNSET")

vlan_flags_to_string_as_secret_flags(flags, get_type) ==
    secret_flags_to_string(flags, get_type)

vlan_flags_to_string(flags, get_type) ==
    IF get_type # "pretty" THEN FormatInt(flags)
    ELSE IF flags = 0 THEN l10n(<<"0", " ", "(", "N", "O", "N", "E", ")">>)
    ELSE FlagsInParentheses(<< [value |-> 1, name |-> <<"R", "E", "O", "R", "D", "E", "R", "_", "H", "E", "A", "D", "E", "R", "S">>],
                               [value |-> 2, name |-> <<"G", "V", "R", "P">>],
                               [value |-> 4, name |-> <<"L", "O", "O", "S", "E", "_", "B", "I", "N", "D", "I", "N", "G">>],
                               [value |-> 8, name |-> <<"M", "V", "R", "P">>] >>, flags)

_get_fcn_vlan_flags(o, get_type) ==
    Got(vlan_flags_to_string(o.vlan_flags, get_type), BoolText(o.vlan_flags = 0))

dcb_flags_to_string(flags) ==
    IF flags = 0 THEN l10n(<<"0", " ", "(", "d", "i", "s", "a", "b", "l", "e", "d", ")">>)
    ELSE FlagsInParentheses(<< [value |-> NM_SETTING_DCB_FLAG_ENABLE, name |-> <<"e", "n", "a", "b", "l", "e", "d">>],
                               [value |-> NM_SETTING_DCB_FLAG_ADVERTISE, name |-> <<"a", "d", "v", "e", "r", "t", "i", "s", "e">>],
                               [value |-> NM_SETTING_DCB_FLAG_WILLING, name |-> <<"w", "i", "l", "l", "i", "n", "g">>] >>, flags)

_get_fcn_dcb_flags(o, p, get_type) == Got(dcb_flags_to_string(o[p]), "UNSET")

_get_fcn_wireless_security_wep_key(o, p, get_type) ==
    Got(o[p], BoolText(o[p] = NULL))

is_secret(p) == p \in {"psk", "wep_key0"}

get_fcn(o, p, get_type) ==
    CASE p = "ethtool"      -> _get_fcn_ethtool(o, get_type)
      [] p = "psk_flags"    -> _get_fcn_gobject_secret_flags(o, p, get_type)
      [] p = "vlan_flags"   -> _get_fcn_vlan_flags(o, get_type)
      [] p \in DcbFlagsProps -> _get_fcn_dcb_flags(o, p, get_type)
      [] p \in {"mdns", "wep_key_type", "ip_tunnel_flags"}
                            -> _get_fcn_gobject_enum(o, p, get_type)
      [] p = "wep_key0"     -> _get_fcn_wireless_security_wep_key(o, p, get_type)
      [] OTHER              -> _get_fcn_gobject(o, p, get_type)

\* the dispatcher redacting only a secret that is set
_meta_type_property_info_get_fcn_unset_shown(o, p, get_type, show_secrets) ==
    IF get_type \notin {"parsable", "pretty"} THEN Got(NULL, "UNSET")
    ELSE IF is_secret(p) /\ ~ show_secrets /\ o[p] # NULL
    THEN Got(_get_text_hidden(get_type), "TRUE")
    ELSE get_fcn(o, p, get_type)

_meta_type_property_info_get_fcn(o, p, get_type, show_secrets) ==
    IF get_type \notin {"parsable", "pretty"} THEN Got(NULL, "UNSET")
    ELSE IF is_secret(p) /\ ~ show_secrets THEN Got(_get_text_hidden(get_type), "TRUE")
    ELSE get_fcn(o, p, get_type)

(***************************************************************************)
(* The key=value option tables: DEFINE_SETTER_OPTIONS, for the bond        *)
(* options and the vpn data items.                                         *)
(***************************************************************************)
option_add(o, p, name, val) ==
    [o EXCEPT ![p] = {e \in @ : e.name # name} \cup {[name |-> name, value |-> val]}]

NM_SETTING_BOND_OPTION_MODE == <<"m">>

nm_setting_bond_get_valid_options == << NM_SETTING_BOND_OPTION_MODE >>

\* the name of the mode the text spells, NULL when it spells none
nmc_bond_validate_mode(mode) == nmc_string_is_valid(mode, << <<"v">> >>)

_validate_bond_option_value(option, value) ==
    IF option = NM_SETTING_BOND_OPTION_MODE THEN nmc_bond_validate_mode(value) ELSE value

_bond_add_option(o, name, value) == option_add(o, "bond_options", name, value)

_validate_vpn_hash_value(option, value) == IF value = <<>> THEN NULL ELSE value

\* the library refuses an empty key or item
nm_setting_vpn_add_data_item(o, key, item) ==
    IF key = <<>> \/ item = <<>> THEN o ELSE option_add(o, "vpn_data", key, item)

\* one pair of the text: left of the first '=' the name, right of it the value
OptionLeft(tok) == g_strchomp(SubSeq(g_strstrip(tok), 1, strchr(g_strstrip(tok), "=") - 1))
OptionRight(tok) ==
    SkipLeadingSpaces(SubSeq(g_strstrip(tok), strchr(g_strstrip(tok), "=") + 1,
                             Len(g_strstrip(tok))))

RECURSIVE _set_fcn_bond_options_loop(_, _, _)
_set_fcn_bond_options_loop(o, strv, i) ==
    IF i > Len(strv) THEN Ok(o)
    ELSE IF strchr(g_strstrip(strv[i]), "=") = 0 THEN Err(o, strv[i])
    ELSE LET left     == OptionLeft(strv[i])
             opt_name == nmc_string_is_valid(left, nm_setting_bond_get_valid_options)
             opt_val  == _validate_bond_option_value(left, OptionRight(strv[i]))
         IN  IF opt_name = NULL THEN Err(o, left)
             ELSE IF opt_val = NULL THEN Err(o, OptionRight(strv[i]))
             ELSE _set_fcn_bond_options_loop(_bond_add_option(o, opt_name, opt_val), strv, i + 1)

_set_fcn_bond_options(o, value) ==
    IF _SET_FCN_DO_RESET_DEFAULT(value)
    THEN _gobject_property_reset_default(o, "bond_options")
    ELSE _set_fcn_bond_options_loop(o, nm_utils_strsplit_set(value, {","}), 1)

RECURSIVE _set_fcn_vpn_data_loop(_, _, _)
_set_fcn_vpn_data_loop(o, strv, i) ==
    IF i > Len(strv) THEN Ok(o)
    ELSE IF strchr(g_strstrip(strv[i]), "=") = 0 THEN Err(o, strv[i])
    ELSE LET opt_name == OptionLeft(strv[i])
             opt_val  == _validate_vpn_hash_value(opt_name, OptionRight(strv[i]))
         IN  IF opt_val = NULL THEN Err(o, opt_name)
             ELSE _set_fcn_vpn_data_loop(nm_setting_vpn_add_data_item(o, opt_name, opt_val),
                                         strv, i + 1)

_set_fcn_vpn_data(o, value) ==
    IF _SET_FCN_DO_RESET_DEFAULT(value)
    THEN _gobject_property_reset_default(o, "vpn_data")
    ELSE _set_fcn_vpn_data_loop(o, nm_utils_strsplit_set(value, {","}), 1)

(***************************************************************************)
(* The remove entry point: it calls the remove_fcn of the type of the      *)
(* property, when the type has one.                                        *)
(***************************************************************************)
option_remove(o, p, name) == [o EXCEPT ![p] = {e \in @ : e.name # name}]

_validate_and_remove_bond_option(o, option) ==
    LET opt == nmc_string_is_valid(option, nm_setting_bond_get_valid_options)
    IN  IF opt # NULL THEN option_remove(o, "bond_options", opt) ELSE o

nm_setting_vpn_remove_data_item(o, key) == option_remove(o, "vpn_data", key)

DEFINE_REMOVER_OPTION(o, p, value) ==
    IF value # NULL /\ value # <<>>
    THEN Ok(IF p = "bond_options" THEN _validate_and_remove_bond_option(o, value)
            ELSE nm_setting_vpn_remove_data_item(o, value))
    ELSE Ok(o)

property_type_has_remove_fcn_always(p) == TRUE

\* the property types that fill in .remove_fcn; the scalar types
\* (_pt_gobject_string, _pt_gobject_bool, _pt_ethtool, ...) leave it NULL
property_type_has_remove_fcn(p) == p \in ListProps \cup OptionProps

\* the call through .remove_fcn; through a NULL pointer it ends the process
property_type_remove_fcn(o, p, value) ==
    CASE p \in MultilistProps -> _remove_fcn_multilist(o, p, value)
      [] p = "dns"            -> _remove_fcn_ip_config_dns(o, value)
      [] p = "addresses"      -> _remove_fcn_ip_config_addresses(o, value)
      [] p = "routes"         -> _remove_fcn_ipv4_config_routes(o, value)
      [] p = "permissions"    -> _remove_fcn_connection_permissions(o, value)
      [] p \in OptionProps    -> DEFINE_REMOVER_OPTION(o, p, value)
      [] OTHER                -> Crash(o)

nmc_setting_remove_property_option(o, p, value) ==
    IF property_type_has_remove_fcn(p) THEN property_type_remove_fcn(o, p, value)
    ELSE Ok(o)

(***************************************************************************)
(* The calls of the editor.  last records the latest call: what was asked, *)
(* the object before it (pre) and what the handler returned.               *)
(***************************************************************************)
NoCall ==
    [op |-> "none", prop |-> "none", value |-> NULL, get_type |-> "none",
     show_secrets |-> FALSE, res |-> "none", err |-> NULL, ret |-> NULL,
     is_default |-> "UNSET", parsed |-> NULL, warn |-> NULL, pre |-> InitObj]

Init == obj = InitObj /\ last = NoCall

\* the editor makes one call at a time: it is ready for the next one once
\* the latest has returned and its result has been taken
Running == last.op = "none"

\* the caller takes the result of the call; a handler that dereferenced
\* NULL ended the process and never returns
Return ==
    /\ last.op # "none"
    /\ last.res # "crash"
    /\ last' = [NoCall EXCEPT !.pre = obj]
    /\ UNCHANGED obj

Modify(op, p, value, r) ==
    /\ obj' = r.obj
    /\ last' = [op |-> op, prop |-> p, value |-> value, get_type |-> "none",
                show_secrets |-> FALSE, res |-> r.res, err |-> r.err, ret |-> NULL,
                is_default |-> "UNSET", parsed |-> NULL, warn |-> r.warn, pre |-> obj]

\* the items the exploration keeps working on
SmallItems(p) ==
    CASE p = "eap"       -> {<<"a">>, <<"1", "a">>}
      [] p = "dns"       -> {<<"a">>, <<"a", "a">>}
      [] p = "addresses" -> {[address |-> <<"a">>, prefix |-> MAX_PREFIX(AF_INET)],
                             [address |-> <<"a", "a">>, prefix |-> MAX_PREFIX(AF_INET)]}
      [] p = "routes"    -> {[dest |-> <<"a">>, prefix |-> MAX_PREFIX(AF_INET), next_hop |-> NULL, metric |-> -1],
                             [dest |-> <<"a">>, prefix |-> MAX_PREFIX(AF_INET), next_hop |-> NULL, metric |-> 1],
                             [dest |-> <<"a">>, prefix |-> MAX_PREFIX(AF_INET), next_hop |-> <<"a">>, metric |-> -1]}
      [] OTHER           -> {<<"a">>, <<"1">>}

\* one list is edited at a time, and only while its items are small ones
Editable(p) ==
    /\ Len(obj[p]) <= MaxListLen
    /\ \A q \in ListProps \ {p} : obj[q] = <<>>
    /\ \A i \in 1..Len(obj[p]) : obj[p][i] \in SmallItems(p)

\* the exploration keeps the lists short; a reset is always explored
Explorable(p, value) == value = NULL \/ (Editable(p) /\ Len(obj[p]) < MaxListLen)

Uuids == {<<"u1">>, <<"u2">>}

SetConnectionType(value) ==
    /\ Running
    /\ \E uuid \in Uuids : Modify("set", "type", value, _set_fcn_connection_type(obj, value, uuid))

SetGobjectString(p, value) ==
    /\ Running
    /\ Modify("set", p, value, _set_fcn_gobject_string(obj, p, value))

SetGobjectBool(p, value) ==
    /\ Running
    /\ Modify("set", p, value, _set_fcn_gobject_bool(obj, p, value))

SetEthtool(value) ==
    /\ Running
    /\ Modify("set", "ethtool", value, _set_fcn_ethtool(obj, value))

SetIpConfigDns(value) ==
    /\ Running
    /\ Explorable("dns", value)
    /\ Modify("set", "dns", value, _set_fcn_ip_config_dns(obj, value))

\* a variant whose getter takes the property out of the object to format it
Get_taking(p, get_type, show_secrets) ==
    /\ Running
    /\ LET g == _meta_type_property_info_get_fcn(obj, p, get_type, show_secrets)
       IN  last' = [op |-> "get", prop |-> p, value |-> NULL, get_type |-> get_type,
                    show_secrets |-> show_secrets, res |-> "ok", err |-> NULL,
                    ret |-> g.ret, is_default |-> g.is_default, parsed |-> NULL,
                    warn |-> NULL, pre |-> obj]
    /\ obj' = [obj EXCEPT ![p] = PspecDefault(p)]

Get(p, get_type, show_secrets) ==
    /\ Running
    /\ LET g == _meta_type_property_info_get_fcn(obj, p, get_type, show_secrets)
       IN  last' = [op |-> "get", prop |-> p, value |-> NULL, get_type |-> get_type,
                    show_secrets |-> show_secrets, res |-> "ok", err |-> NULL,
                    ret |-> g.ret, is_default |-> g.is_default, parsed |-> NULL,
                    warn |-> NULL, pre |-> obj]
    /\ UNCHANGED obj

RemovePropertyOption(p, value) ==
    /\ Running
    /\ p \in ListProps => Editable(p)
    /\ Modify("remove", p, value, nmc_setting_remove_property_option(obj, p, value))

MainProps == {"type", "uuid", "psk", "autoconnect", "ethtool", "dns"}
GetTypes == {"parsable", "pretty", "color"}
MainTexts == {<<>>, <<" ">>, <<"0">>, <<"1">>, <<"a">>}
MainValues == MainTexts \cup {NULL}

Next ==
    \/ \E value \in MainValues : SetConnectionType(value)
    \/ \E value \in MainValues : SetGobjectString("psk", value)
    \/ \E value \in MainValues : SetGobjectBool("autoconnect", value)
    \/ \E value \in MainValues : SetEthtool(value)
    \/ \E value \in MainValues : SetIpConfigDns(value)
    \/ \E p \in MainProps, get_type \in GetTypes, show_secrets \in BOOLEAN :
          Get(p, get_type, show_secrets)
    \/ \E p \in MainProps, value \in MainValues : RemovePropertyOption(p, value)
    \/ Return

Spec == Init /\ [][Next]_vars

(***************************************************************************)
(* Claims about the scalar and custom properties, checked under Spec.      *)
(***************************************************************************)

\* C1: a get of a secret property without the show-secrets flag returns the
\* fixed redaction token of the get mode (localized under pretty) and reports
\* is_default = true, whatever value is stored, the unset one included.
C1_SecretRedacted ==
    (   last.op = "get" /\ is_secret(last.prop) /\ ~ last.show_secrets
     /\ last.get_type \in {"parsable", "pretty"})
    => /\ last.ret = IF last.get_type = "pretty"
                     THEN <<"_(", "<hidden>", ")">> ELSE <<"<hidden>">>
       /\ last.is_default = "TRUE"

\* a redacted get of a secret that holds a value
C1_Witness ==
    /\ last.op = "get" /\ last.prop = "psk" /\ ~ last.show_secrets
    /\ last.get_type = "parsable"
    /\ obj.psk = <<"a">>
    /\ last.ret = <<"<hidden>">>

C3_TypeImmutable ==
    (last.op = "set" /\ last.prop = "type" /\ last.pre.uuid # NULL)
    => /\ last.res = "error"
       /\ last.err = <<"Can not change the connection type">>
       /\ obj.type = last.pre.type
       /\ obj.uuid = last.pre.uuid

\* a reset of the type of a connection that has a uuid, rejected
C3_Witness ==
    /\ last.op = "set" /\ last.prop = "type" /\ last.value = NULL
    /\ last.pre.uuid # NULL
    /\ last.res = "error"

\* C4: the uuid is assigned exactly by a successful set of the connection
\* type with a non-null text on a connection without uuid, that call stores
\* the type, and once the uuid is set neither type nor uuid changes.
C4_TypeTransitionOnce ==
    [][ /\ (obj.uuid # NULL => obj'.uuid = obj.uuid /\ obj'.type = obj.type)
        /\ (obj.uuid = NULL /\ obj'.uuid # NULL
              => /\ last'.op = "set" /\ last'.prop = "type"
                 /\ last'.value # NULL /\ last'.res = "ok"
                 /\ obj'.type = last'.value)
        /\ (   obj.uuid = NULL /\ last'.op = "set" /\ last'.prop = "type"
            /\ last'.value # NULL
              => last'.res = "ok" /\ obj'.uuid # NULL) ]_vars

\* the type was stored together with a uuid, and a later set was attempted
C4_Witness ==
    /\ obj.uuid # NULL /\ obj.type = <<"a">>
    /\ last.op = "set" /\ last.prop = "type" /\ last.value = <<"1">>
    /\ last.pre.uuid # NULL

ScalarProps == {"type", "uuid", "psk", "autoconnect", "ethtool"}

\* C11: a remove on a property whose type is a scalar one returns success
\* for every text and leaves the configuration object as it was.
C11_ScalarRemoveNoOp ==
    (last.op = "remove" /\ last.prop \in ScalarProps)
        => (last.res = "ok" /\ obj = last.pre)

\* a remove with a text was called on a psk that holds a value, and the
\* value is still there
C11_Witness ==
    /\ last.op = "remove" /\ last.prop = "psk" /\ last.value = <<"a">>
    /\ last.pre.psk = <<"a">> /\ obj.psk = <<"a">> /\ last.res = "ok"

(***************************************************************************)
(* The list-valued properties: second specification, over texts that hold  *)
(* separators, an index and an address.                                    *)
(***************************************************************************)
SetMultilist(p, value) ==
    /\ Running
    /\ Explorable(p, value)
    /\ Modify("set", p, value, _set_fcn_multilist(obj, p, value))

RemoveMultilist(p, value) ==
    /\ Running
    /\ Editable(p)
    /\ Modify("remove", p, value, _remove_fcn_multilist(obj, p, value))

RemoveIpConfigDns(value) ==
    /\ Running
    /\ Editable("dns")
    /\ Modify("remove", "dns", value, _remove_fcn_ip_config_dns(obj, value))

SetIp4ConfigAddresses(value) ==
    /\ Running
    /\ Explorable("addresses", value)
    /\ Modify("set", "addresses", value, _set_fcn_ip4_config_addresses(obj, value))

RemoveIpConfigAddresses(value) ==
    /\ Running
    /\ Editable("addresses")
    /\ Modify("remove", "addresses", value, _remove_fcn_ip_config_addresses(obj, value))

SetIp4ConfigRoutes(value) ==
    /\ Running
    /\ Explorable("routes", value)
    /\ Modify("set", "routes", value, _set_fcn_ip4_config_routes(obj, value))

RemoveIpv4ConfigRoutes(value) ==
    /\ Running
    /\ Editable("routes")
    /\ Modify("remove", "routes", value, _remove_fcn_ipv4_config_routes(obj, value))

SetConnectionPermissions(value) ==
    /\ Running
    /\ Explorable("permissions", value)
    /\ Modify("set", "permissions", value, _set_fcn_connection_permissions(obj, value))

RemoveConnectionPermissions(value) ==
    /\ Running
    /\ Editable("permissions")
    /\ Modify("remove", "permissions", value, _remove_fcn_connection_permissions(obj, value))

ListAlphabet == {"1", "a", ",", " "}
ListTexts == TextsUpTo(ListAlphabet, MaxTextLen)
ListValues == ListTexts \cup {NULL}

NextList ==
    \/ \E p \in MultilistProps, value \in ListValues : SetMultilist(p, value)
    \/ \E p \in MultilistProps, value \in ListTexts : RemoveMultilist(p, value)
    \/ \E value \in ListValues : SetIpConfigDns(value)
    \/ \E value \in ListTexts : RemoveIpConfigDns(value)
    \/ \E value \in ListValues : SetIp4ConfigAddresses(value)
    \/ \E value \in ListTexts : RemoveIpConfigAddresses(value)
    \/ \E value \in ListValues : SetIp4ConfigRoutes(value)
    \/ \E value \in ListTexts : RemoveIpv4ConfigRoutes(value)
    \/ \E value \in ListValues : SetConnectionPermissions(value)
    \/ \E value \in ListTexts : RemoveConnectionPermissions(value)
    \/ Return

SpecList == Init /\ [][NextList]_vars

(***************************************************************************)
(* Claims about the list-valued properties, checked under SpecList.        *)
(***************************************************************************)
\* the index a remove text spells, -1 when it spells none
RemoveIndex == _nm_utils_ascii_str_to_int64(last.value, 0, G_MAXINT64, -1)

\* the list of the property of the latest call, before the call
OldList == last.pre[last.prop]

\* C5 as stated: a set on dns, addresses, routes or a multilist with fixed
\* values that fails on an invalid item leaves the object as it was.
C5_InvalidItemAppliesNothing ==
    (   last.op = "set" /\ last.prop \in {"dns", "addresses", "routes", "eap"}
     /\ last.value # NULL /\ last.res = "error")
    => obj = last.pre

\* C7: a remove whose text is an integer i with 0 <= i < n succeeds, removes
\* the element at position i and keeps the others in order, also when an
\* element equals the text.
C7_RemoveByIndex ==
    (last.op = "remove" /\ RemoveIndex # -1 /\ RemoveIndex < Len(OldList))
    => /\ last.res = "ok"
       /\ Len(obj[last.prop]) = Len(OldList) - 1
       /\ \A j \in 1..Len(obj[last.prop]) :
             obj[last.prop][j] = IF j <= RemoveIndex THEN OldList[j] ELSE OldList[j + 1]
       /\ \A q \in ListProps \ {last.prop} : obj[q] = last.pre[q]

\* remove("1") on ["1", "a"]: the element at index 1 goes, the "1" stays
C7_Witness ==
    /\ last.op = "remove" /\ last.prop = "altsubject" /\ last.value = <<"1">>
    /\ last.pre.altsubject = << <<"1">>, <<"a">> >>
    /\ obj.altsubject = << <<"1">> >>

\* C8 as stated: a remove whose text is an integer >= n removes every
\* element equal to the stripped text.
C8_OutOfRangeTakesValuePath ==
    (   last.op = "remove" /\ last.prop \in {"altsubject", "permissions"}
     /\ RemoveIndex # -1 /\ RemoveIndex >= Len(OldList))
    => /\ last.res = "ok"
       /\ obj[last.prop] = SelectSeq(OldList, LAMBDA e : e # g_strstrip(last.value))

\* C8 amended: a remove whose text is an integer >= n succeeds and changes
\* nothing; the value path is not taken.
C8_OutOfRangeIndexIgnored ==
    (last.op = "remove" /\ RemoveIndex # -1 /\ RemoveIndex >= Len(OldList))
    => /\ last.res = "ok"
       /\ obj = last.pre

\* remove("1") on ["1"]: index 1 is out of range and the "1" stays
C8_Witness ==
    /\ last.op = "remove" /\ last.prop = "permissions" /\ last.value = <<"1">>
    /\ last.pre.permissions = << <<"1">> >>
    /\ obj.permissions = << <<"1">> >>

\* the item a remove text names on the value path, and whether the
\* property's validation accepts it
RemoveItem ==
    LET v == g_strstrip(last.value)
    IN  CASE last.prop = "eap" ->
               [ok |-> nmc_string_is_valid(v, values_static("eap")) # NULL,
                v |-> nmc_string_is_valid(v, values_static("eap"))]
          [] last.prop = "dns" -> [ok |-> nm_utils_parse_inaddr(AF_INET, v), v |-> v]
          [] last.prop = "addresses" ->
               [ok |-> _parse_ip_address(AF_INET, v).ok, v |-> _parse_ip_address(AF_INET, v).v]
          [] last.prop = "routes" ->
               [ok |-> _parse_ip_route(AF_INET, v).ok, v |-> _parse_ip_route(AF_INET, v).v]
          [] OTHER -> [ok |-> TRUE, v |-> v]

\* C9: a remove whose text is no index, passes the property's validation
\* and equals no element succeeds and leaves the whole object unchanged.
C9_RemoveAbsentValueNoOp ==
    (   last.op = "remove" /\ RemoveIndex = -1 /\ RemoveItem.ok
     /\ \A j \in 1..Len(OldList) : OldList[j] # RemoveItem.v)
    => /\ last.res = "ok"
       /\ obj = last.pre

\* remove("aa") on the dns list ["a"]
C9_Witness ==
    /\ last.op = "remove" /\ last.prop = "dns" /\ last.value = <<"a", "a">>
    /\ last.pre.dns = << <<"a">> >>
    /\ last.res = "ok"
    /\ obj.dns = << <<"a">> >>

\* the items a set text of the generic add policy names, in input order
AddedItems ==
    LET strv == nm_utils_strsplit_set(last.value, {" ", "\t", ","})
    IN  [j \in 1..Len(strv) |->
            IF last.prop = "eap" THEN nmc_string_is_valid(strv[j], values_static("eap"))
            ELSE g_strstrip(strv[j])]

\* C10: a successful set on a property of the generic add policy yields the
\* previous list followed by the items of the text in input order, an item
\* already present included.
C10_SetAppendsInOrder ==
    (   last.op = "set" /\ last.prop \in MultilistProps \cup {"dns"}
     /\ last.value # NULL /\ last.res = "ok")
    => /\ Len(obj[last.prop]) = Len(OldList) + Len(AddedItems)
       /\ \A j \in 1..Len(OldList) : obj[last.prop][j] = OldList[j]
       /\ \A j \in 1..Len(AddedItems) : obj[last.prop][Len(OldList) + j] = AddedItems[j]

\* set("a,a") on ["a"] gives ["a", "a", "a"]
C10_Witness ==
    /\ last.op = "set" /\ last.prop = "altsubject" /\ last.value = <<"a", ",", "a">>
    /\ last.pre.altsubject = << <<"a">> >>
    /\ obj.altsubject = << <<"a">>, <<"a">>, <<"a">> >>

(***************************************************************************)
(* The option tables: third specification, over texts that hold '='.       *)
(***************************************************************************)
\* one table is edited at a time, while it is small and its texts short
EditableOptions(p, value) ==
    \/ value = NULL
    \/ /\ Cardinality(obj[p]) < MaxListLen
       /\ \A q \in OptionProps \ {p} : obj[q] = {}
       /\ \A e \in obj[p] : Len(e.name) = 1 /\ Len(e.value) = 1

SetBondOptions(value) ==
    /\ Running
    /\ EditableOptions("bond_options", value)
    /\ Modify("set", "bond_options", value, _set_fcn_bond_options(obj, value))

SetVpnData(value) ==
    /\ Running
    /\ EditableOptions("vpn_data", value)
    /\ Modify("set", "vpn_data", value, _set_fcn_vpn_data(obj, value))

OptionAlphabet == {"m", "v", "=", ","}
OptionValues == TextsUpTo(OptionAlphabet, MaxOptTextLen) \cup {NULL}

NextOpts ==
    \/ \E value \in OptionValues : SetBondOptions(value)
    \/ \E value \in OptionValues : SetVpnData(value)
    \/ Return

SpecOpts == Init /\ [][NextOpts]_vars

\* C6 as stated: a set on a key=value option table that fails on an invalid
\* pair adds and changes no option of the text.
C6_InvalidPairAppliesNothing ==
    (   last.op = "set" /\ last.prop \in OptionProps
     /\ last.value # NULL /\ last.res = "error")
    => obj = last.pre

(***************************************************************************)
(* Team link watchers: the watcher objects, their text form and the parser *)
(* of that text.                                                            *)
(***************************************************************************)
G_MAXINT32 == 2147483647

NM_TEAM_LINK_WATCHER_ETHTOOL == <<"e", "t", "h", "t", "o", "o", "l">>
NM_TEAM_LINK_WATCHER_NSNA_PING == <<"n", "s", "n", "a", "_", "p", "i", "n", "g">>
NM_TEAM_LINK_WATCHER_ARP_PING == <<"a", "r", "p", "_", "p", "i", "n", "g">>

NM_TEAM_LINK_WATCHER_ARP_PING_FLAG_VALIDATE_ACTIVE == 2
NM_TEAM_LINK_WATCHER_ARP_PING_FLAG_VALIDATE_INACTIVE == 4
NM_TEAM_LINK_WATCHER_ARP_PING_FLAG_SEND_ALWAYS == 8

\* a watcher object; the fields its kind does not have read as the getters
\* of the library report them (-1, NULL, no flag)
NMTeamLinkWatcher(name, delay_up, delay_down, init_wait, interval, missed_max, vlanid, target_host, source_host, flags) ==
    [name |-> name, delay_up |-> delay_up, delay_down |-> delay_down,
     init_wait |-> init_wait, interval |-> interval, missed_max |-> missed_max,
     vlanid |-> vlanid, target_host |-> target_host, source_host |-> source_host,
     flags |-> flags]

MissingInWatcher(what, name) ==
    <<"Missing ">> \o what \o <<" in ">> \o name \o <<" link watcher">>

nm_team_link_watcher_new_ethtool(delay_up, delay_down) ==
    Parsed(NMTeamLinkWatcher(NM_TEAM_LINK_WATCHER_ETHTOOL, delay_up, delay_down,
                             -1, -1, -1, -1, NULL, NULL, 0))

nm_team_link_watcher_new_nsna_ping(init_wait, interval, missed_max, target_host) ==
    IF target_host = NULL
    THEN ParseError(MissingInWatcher(<<"t", "a", "r", "g", "e", "t", "-", "h", "o", "s", "t">>, NM_TEAM_LINK_WATCHER_NSNA_PING))
    ELSE Parsed(NMTeamLinkWatcher(NM_TEAM_LINK_WATCHER_NSNA_PING, -1, -1,
                                  init_wait, interval, missed_max, -1,
                                  target_host, NULL, 0))

nm_team_link_watcher_new_arp_ping2(init_wait, interval, missed_max, vlanid, target_host, source_host, flags) ==
    IF target_host = NULL
    THEN ParseError(MissingInWatcher(<<"t", "a", "r", "g", "e", "t", "-", "h", "o", "s", "t">>, NM_TEAM_LINK_WATCHER_ARP_PING))
    ELSE IF source_host = NULL
    THEN ParseError(MissingInWatcher(<<"s", "o", "u", "r", "c", "e", "-", "h", "o", "s", "t">>, NM_TEAM_LINK_WATCHER_ARP_PING))
    ELSE Parsed(NMTeamLinkWatcher(NM_TEAM_LINK_WATCHER_ARP_PING, -1, -1,
                                  init_wait, interval, missed_max, vlanid,
                                  target_host, source_host, flags))

\* DUMP_WATCHER_INT: " name=value", only for a value other than 0
DUMP_WATCHER_INT(str, name, val) ==
    IF val # 0 THEN str \o <<" ">> \o name \o <<"=">> \o FormatInt(val) ELSE str

_dump_team_link_watcher_flags(str, flags) ==
    LET a == IF HasFlag(flags, NM_TEAM_LINK_WATCHER_ARP_PING_FLAG_VALIDATE_ACTIVE)
             THEN str \o <<" ", "v", "a", "l", "i", "d", "a", "t", "e", "-", "a", "c", "t", "i", "v", "e", "=", "t", "r", "u", "e">> ELSE str
        b == IF HasFlag(flags, NM_TEAM_LINK_WATCHER_ARP_PING_FLAG_VALIDATE_INACTIVE)
             THEN a \o <<" ", "v", "a", "l", "i", "d", "a", "t", "e", "-", "i", "n", "a", "c", "t", "i", "v", "e", "=", "t", "r", "u", "e">> ELSE a
    IN  IF HasFlag(flags, NM_TEAM_LINK_WATCHER_ARP_PING_FLAG_SEND_ALWAYS)
        THEN b \o <<"s", "e", "n", "d", "-", "a", "l", "w", "a", "y", "s", "=", "t", "r", "u", "e">> ELSE b

\* the null pointer where a watcher is expected
NoWatcher == [name |-> NULL]

_dump_team_link_watcher(watcher) ==
    IF watcher = NoWatcher THEN NULL
    ELSE LET name == watcher.name
             w0   == <<"n", "a", "m", "e", "=">> \o name
         IN  IF name = NM_TEAM_LINK_WATCHER_ETHTOOL
             THEN DUMP_WATCHER_INT(DUMP_WATCHER_INT(w0, <<"d", "e", "l", "a", "y", "-", "u", "p">>, watcher.delay_up),
                                   <<"d", "e", "l", "a", "y", "-", "d", "o", "w", "n">>, watcher.delay_down)
             ELSE LET w1 == DUMP_WATCHER_INT(w0, <<"i", "n", "i", "t", "-", "w", "a", "i", "t">>, watcher.init_wait)
                      w2 == DUMP_WATCHER_INT(w1, <<"i", "n", "t", "e", "r", "v", "a", "l">>, watcher.interval)
                      w3 == DUMP_WATCHER_INT(w2, <<"m", "i", "s", "s", "e", "d", "-", "m", "a", "x">>, watcher.missed_max)
                      w4 == w3 \o <<" ", "t", "a", "r", "g", "e", "t", "-", "h", "o", "s", "t", "=">> \o watcher.target_host
                  IN  IF name = NM_TEAM_LINK_WATCHER_NSNA_PING THEN w4
                      ELSE LET w5 == DUMP_WATCHER_INT(w4, <<"v", "l", "a", "n", "i", "d">>, watcher.vlanid)
                               w6 == w5 \o <<" ", "s", "o", "u", "r", "c", "e", "-", "h", "o", "s", "t", "=">> \o watcher.source_host
                           IN  _dump_team_link_watcher_flags(w6, watcher.flags)

WatcherNotValid(token, why) == <<"'">> \o token \o <<"' is not valid: ", why>>
WatcherTextNotValid(str) == <<"'">> \o str \o <<"' is not valid">>
LinkWatcherNameMissing == <<"link watcher name missing">>
UnknownLinkWatcherName(name) == <<"unknown link watcher name: '">> \o name \o <<"'">>

\* the locals of the parser before the first token
WatcherLocals ==
    [name |-> NULL, val1 |-> 0, val2 |-> 0, val3 |-> 3, val4 |-> -1,
     target_host |-> NULL, source_host |-> NULL, flags |-> 0]

WatcherKeys ==
    {<<"n", "a", "m", "e">>, <<"d", "e", "l", "a", "y", "-", "u", "p">>, <<"i", "n", "i", "t", "-", "w", "a", "i", "t">>, <<"d", "e", "l", "a", "y", "-", "d", "o", "w", "n">>, <<"i", "n", "t", "e", "r", "v", "a", "l">>, <<"m", "i", "s", "s", "e", "d", "-", "m", "a", "x">>,
     <<"v", "l", "a", "n", "i", "d">>, <<"t", "a", "r", "g", "e", "t", "-", "h", "o", "s", "t">>, <<"s", "o", "u", "r", "c", "e", "-", "h", "o", "s", "t">>, <<"v", "a", "l", "i", "d", "a", "t", "e", "-", "a", "c", "t", "i", "v", "e">>,
     <<"v", "a", "l", "i", "d", "a", "t", "e", "-", "i", "n", "a", "c", "t", "i", "v", "e">>, <<"s", "e", "n", "d", "-", "a", "l", "w", "a", "y", "s">>}

\* a variant that takes a vlanid outside its range for "not set"
_parse_team_link_watcher_pair_vlanid_unchecked(st, key, value) ==
    LET flag(bit) == IF value = <<"t", "r", "u", "e">> THEN [st EXCEPT !.flags = WithFlag(st.flags, bit)]
                     ELSE st
    IN  CASE key = <<"n", "a", "m", "e">> -> [st EXCEPT !.name = value]
          [] key \in {<<"d", "e", "l", "a", "y", "-", "u", "p">>, <<"i", "n", "i", "t", "-", "w", "a", "i", "t">>} ->
               [st EXCEPT !.val1 = _nm_utils_ascii_str_to_int64(value, 0, G_MAXINT32, -1)]
          [] key \in {<<"d", "e", "l", "a", "y", "-", "d", "o", "w", "n">>, <<"i", "n", "t", "e", "r", "v", "a", "l">>} ->
               [st EXCEPT !.val2 = _nm_utils_ascii_str_to_int64(value, 0, G_MAXINT32, -1)]
          [] key = <<"m", "i", "s", "s", "e", "d", "-", "m", "a", "x">> ->
               [st EXCEPT !.val3 = _nm_utils_ascii_str_to_int64(value, 0, G_MAXINT32, -1)]
          [] key = <<"v", "l", "a", "n", "i", "d">> ->
               [st EXCEPT !.val4 = _nm_utils_ascii_str_to_int64(value, -1, 4094, -1)]
          [] key = <<"t", "a", "r", "g", "e", "t", "-", "h", "o", "s", "t">> -> [st EXCEPT !.target_host = value]
          [] key = <<"s", "o", "u", "r", "c", "e", "-", "h", "o", "s", "t">> -> [st EXCEPT !.source_host = value]
          [] key = <<"v", "a", "l", "i", "d", "a", "t", "e", "-", "a", "c", "t", "i", "v", "e">> -> flag(NM_TEAM_LINK_WATCHER_ARP_PING_FLAG_VALIDATE_ACTIVE)
          [] key = <<"v", "a", "l", "i", "d", "a", "t", "e", "-", "i", "n", "a", "c", "t", "i", "v", "e">> -> flag(NM_TEAM_LINK_WATCHER_ARP_PING_FLAG_VALIDATE_INACTIVE)
          [] key = <<"s", "e", "n", "d", "-", "a", "l", "w", "a", "y", "s">> -> flag(NM_TEAM_LINK_WATCHER_ARP_PING_FLAG_SEND_ALWAYS)

\* the locals after the pair key=value
_parse_team_link_watcher_pair(st, key, value) ==
    LET flag(bit) == IF value = <<"t", "r", "u", "e">> THEN [st EXCEPT !.flags = WithFlag(st.flags, bit)]
                     ELSE st
    IN  CASE key = <<"n", "a", "m", "e">> -> [st EXCEPT !.name = value]
          [] key \in {<<"d", "e", "l", "a", "y", "-", "u", "p">>, <<"i", "n", "i", "t", "-", "w", "a", "i", "t">>} ->
               [st EXCEPT !.val1 = _nm_utils_ascii_str_to_int64(value, 0, G_MAXINT32, -1)]
          [] key \in {<<"d", "e", "l", "a", "y", "-", "d", "o", "w", "n">>, <<"i", "n", "t", "e", "r", "v", "a", "l">>} ->
               [st EXCEPT !.val2 = _nm_utils_ascii_str_to_int64(value, 0, G_MAXINT32, -1)]
          [] key = <<"m", "i", "s", "s", "e", "d", "-", "m", "a", "x">> ->
               [st EXCEPT !.val3 = _nm_utils_ascii_str_to_int64(value, 0, G_MAXINT32, -1)]
          [] key = <<"v", "l", "a", "n", "i", "d">> ->
               [st EXCEPT !.val4 = _nm_utils_ascii_str_to_int64(value, -1, 4094, -2)]
          [] key = <<"t", "a", "r", "g", "e", "t", "-", "h", "o", "s", "t">> -> [st EXCEPT !.target_host = value]
          [] key = <<"s", "o", "u", "r", "c", "e", "-", "h", "o", "s", "t">> -> [st EXCEPT !.source_host = value]
          [] key = <<"v", "a", "l", "i", "d", "a", "t", "e", "-", "a", "c", "t", "i", "v", "e">> ->
               flag(NM_TEAM_LINK_WATCHER_ARP_PING_FLAG_VALIDATE_ACTIVE)
          [] key = <<"v", "a", "l", "i", "d", "a", "t", "e", "-", "i", "n", "a", "c", "t", "i", "v", "e">> ->
               flag(NM_TEAM_LINK_WATCHER_ARP_PING_FLAG_VALIDATE_INACTIVE)
          [] key = <<"s", "e", "n", "d", "-", "a", "l", "w", "a", "y", "s">> ->
               flag(NM_TEAM_LINK_WATCHER_ARP_PING_FLAG_SEND_ALWAYS)

\* the loop over the tokens: the locals after the last token, or the error
\* of the first token that is refused
RECURSIVE _parse_team_link_watcher_loop(_, _, _)
_parse_team_link_watcher_loop(watcherv, i, st) ==
    IF i > Len(watcherv) THEN Parsed(st)
    ELSE LET pair == nm_utils_strsplit_set(watcherv[i], {"="})
         IN  IF StrvIsNull(pair)
             THEN ParseError(WatcherNotValid(watcherv[i],
                                 "properties should be specified as 'key=value'"))
             ELSE IF Len(pair) = 1
             THEN ParseError(WatcherNotValid(watcherv[i], "missing key value"))
             ELSE IF Len(pair) > 2
             THEN ParseError(WatcherNotValid(watcherv[i],
                                 "properties should be specified as 'key=value'"))
             ELSE IF pair[1] \notin WatcherKeys
             THEN ParseError(WatcherNotValid(watcherv[i], "unknown key"))
             ELSE LET st2 == _parse_team_link_watcher_pair(st, pair[1], pair[2])
                  IN  IF st2.val1 < 0 \/ st2.val2 < 0 \/ st2.val3 < 0
                      THEN ParseError(WatcherNotValid(watcherv[i],
                                          "value is not a valid number [0, MAXINT]"))
                      ELSE IF st2.val4 < -1
                      THEN ParseError(WatcherNotValid(watcherv[i],
                                          "value is not a valid number [-1, 4094]"))
                      ELSE _parse_team_link_watcher_loop(watcherv, i + 1, st2)

_parse_team_link_watcher(str) ==
    LET str_clean == nm_strstrip_avoid_copy(str)
        watcherv  == nm_utils_strsplit_set(str_clean, {" ", "\t"})
    IN  IF StrvIsNull(watcherv) THEN ParseError(WatcherTextNotValid(str))
        ELSE LET r == _parse_team_link_watcher_loop(watcherv, 1, WatcherLocals)
             IN  IF ~r.ok THEN r
                 ELSE IF r.v.name = NM_TEAM_LINK_WATCHER_ETHTOOL
                 THEN nm_team_link_watcher_new_ethtool(r.v.val1, r.v.val2)
                 ELSE IF r.v.name = NM_TEAM_LINK_WATCHER_NSNA_PING
                 THEN nm_team_link_watcher_new_nsna_ping(r.v.val1, r.v.val2, r.v.val3,
                                                         r.v.target_host)
                 ELSE IF r.v.name = NM_TEAM_LINK_WATCHER_ARP_PING
                 THEN nm_team_link_watcher_new_arp_ping2(r.v.val1, r.v.val2, r.v.val3,
                                                         r.v.val4, r.v.target_host,
                                                         r.v.source_host, r.v.flags)
                 ELSE IF r.v.name = NULL THEN ParseError(LinkWatcherNameMissing)
                 ELSE ParseError(UnknownLinkWatcherName(r.v.name))

(***************************************************************************)
(* The settings that may accompany a connection, by the type of its master. *)
(***************************************************************************)
NM_META_SETTING_VALID_PART_ITEM_mandatory(setting_type, mandatory) ==
    [setting_type |-> setting_type, mandatory |-> TRUE]

NM_META_SETTING_VALID_PART_ITEM(setting_type, mandatory) ==
    [setting_type |-> setting_type, mandatory |-> mandatory]

valid_settings_noslave ==
    << NM_META_SETTING_VALID_PART_ITEM("MATCH", FALSE),
       NM_META_SETTING_VALID_PART_ITEM("IP4_CONFIG", FALSE),
       NM_META_SETTING_VALID_PART_ITEM("IP6_CONFIG", FALSE),
       NM_META_SETTING_VALID_PART_ITEM("TC_CONFIG", FALSE),
       NM_META_SETTING_VALID_PART_ITEM("PROXY", FALSE) >>

valid_settings_slave_bridge == << NM_META_SETTING_VALID_PART_ITEM("BRIDGE_PORT", TRUE) >>

valid_settings_slave_ovs_bridge_mandatory ==
    << NM_META_SETTING_VALID_PART_ITEM("OVS_PORT", TRUE) >>

valid_settings_slave_ovs_bridge == << NM_META_SETTING_VALID_PART_ITEM("OVS_PORT", FALSE) >>

valid_settings_slave_ovs_port == << NM_META_SETTING_VALID_PART_ITEM("OVS_INTERFACE", FALSE) >>

valid_settings_slave_team == << NM_META_SETTING_VALID_PART_ITEM("TEAM_PORT", TRUE) >>

NM_SETTING_BOND_SETTING_NAME == <<"b", "o", "n", "d">>
NM_SETTING_BRIDGE_SETTING_NAME == <<"b", "r", "i", "d", "g", "e">>
NM_SETTING_OVS_BRIDGE_SETTING_NAME == <<"o", "v", "s", "-", "b", "r", "i", "d", "g", "e">>
NM_SETTING_OVS_PORT_SETTING_NAME == <<"o", "v", "s", "-", "p", "o", "r", "t">>
NM_SETTING_TEAM_SETTING_NAME == <<"t", "e", "a", "m">>

\* the caller's variable when NM_SET_OUT was not reached
OutNotSet == <<"UNSET">>

\* what the function returns: the NULL pointer (is_null) or a list, and
\* what it leaves in *out_slave_name
ValidParts(parts, out_slave_name) ==
    [is_null |-> FALSE, parts |-> parts, out_slave_name |-> out_slave_name]
NoValidParts == [is_null |-> TRUE, parts |-> <<>>, out_slave_name |-> OutNotSet]

\* .valid_parts of the setting infos: the settings of a connection of the
\* type, each with its mandatory flag; NULL for a setting that is no
\* connection type of its own
nm_meta_setting_infos_editor_valid_parts(type) ==
    CASE type = "6LOWPAN" ->
          ValidParts(<<
             NM_META_SETTING_VALID_PART_ITEM("CONNECTION", TRUE),
             NM_META_SETTING_VALID_PART_ITEM("6LOWPAN", TRUE) >>, OutNotSet)
      [] type = "ADSL" ->
          ValidParts(<<
             NM_META_SETTING_VALID_PART_ITEM("CONNECTION", TRUE),
             NM_META_SETTING_VALID_PART_ITEM("ADSL", TRUE) >>, OutNotSet)
      [] type = "BLUETOOTH" ->
          ValidParts(<<
             NM_META_SETTING_VALID_PART_ITEM("CONNECTION", TRUE),
             NM_META_SETTING_VALID_PART_ITEM("BLUETOOTH", TRUE),
             NM_META_SETTING_VALID_PART_ITEM("BRIDGE", FALSE),
             NM_META_SETTING_VALID_PART_ITEM("GSM", FALSE),
             NM_META_SETTING_VALID_PART_ITEM("CDMA", FALSE) >>, OutNotSet)
      [] type = "BOND" ->
          ValidParts(<<
             NM_META_SETTING_VALID_PART_ITEM("CONNECTION", TRUE),
             NM_META_SETTING_VALID_PART_ITEM("BOND", TRUE),
             NM_META_SETTING_VALID_PART_ITEM("WIRED", FALSE),
             NM_META_SETTING_VALID_PART_ITEM("ETHTOOL", FALSE) >>, OutNotSet)
      [] type = "BRIDGE" ->
          ValidParts(<<
             NM_META_SETTING_VALID_PART_ITEM("CONNECTION", TRUE),
             NM_META_SETTING_VALID_PART_ITEM("BRIDGE", TRUE),
             NM_META_SETTING_VALID_PART_ITEM("WIRED", FALSE),
             NM_META_SETTING_VALID_PART_ITEM("ETHTOOL", FALSE) >>, OutNotSet)
      [] type = "CDMA" ->
          ValidParts(<<
             NM_META_SETTING_VALID_PART_ITEM("CONNECTION", TRUE),
             NM_META_SETTING_VALID_PART_ITEM("CDMA", TRUE),
             NM_META_SETTING_VALID_PART_ITEM("SERIAL", FALSE),
             NM_META_SETTING_VALID_PART_ITEM("PPP", FALSE) >>, OutNotSet)
      [] type = "DUMMY" ->
          ValidParts(<<
             NM_META_SETTING_VALID_PART_ITEM("CONNECTION", TRUE),
             NM_META_SETTING_VALID_PART_ITEM("DUMMY", TRUE),
             NM_META_SETTING_VALID_PART_ITEM("WIRED", FALSE),
             NM_META_SETTING_VALID_PART_ITEM("ETHTOOL", FALSE) >>, OutNotSet)
      [] type = "GENERIC" ->
          ValidParts(<<
             NM_META_SETTING_VALID_PART_ITEM("CONNECTION", TRUE),
             NM_META_SETTING_VALID_PART_ITEM("GENERIC", TRUE) >>, OutNotSet)
      [] type = "GSM" ->
          ValidParts(<<
             NM_META_SETTING_VALID_PART_ITEM("CONNECTION", TRUE),
             NM_META_SETTING_VALID_PART_ITEM("GSM", TRUE),
             NM_META_SETTING_VALID_PART_ITEM("SERIAL", FALSE),
             NM_META_SETTING_VALID_PART_ITEM("PPP", FALSE) >>, OutNotSet)
      [] type = "INFINIBAND" ->
          ValidParts(<<
             NM_META_SETTING_VALID_PART_ITEM("CONNECTION", TRUE),
             NM_META_SETTING_VALID_PART_ITEM("INFINIBAND", TRUE),
             NM_META_SETTING_VALID_PART_ITEM("SRIOV", FALSE),
             NM_META_SETTING_VALID_PART_ITEM("ETHTOOL", FALSE) >>, OutNotSet)
      [] type = "IP_TUNNEL" ->
          ValidParts(<<
             NM_META_SETTING_VALID_PART_ITEM("CONNECTION", TRUE),
             NM_META_SETTING_VALID_PART_ITEM("IP_TUNNEL", TRUE),
             NM_META_SETTING_VALID_PART_ITEM("WIRED", FALSE),
             NM_META_SETTING_VALID_PART_ITEM("ETHTOOL", FALSE) >>, OutNotSet)
      [] type = "MACSEC" ->
          ValidParts(<<
             NM_META_SETTING_VALID_PART_ITEM("CONNECTION", TRUE),
             NM_META_SETTING_VALID_PART_ITEM("MACSEC", TRUE),
             NM_META_SETTING_VALID_PART_ITEM("WIRED", FALSE),
             NM_META_SETTING_VALID_PART_ITEM("802_1X", FALSE),
             NM_META_SETTING_VALID_PART_ITEM("ETHTOOL", FALSE) >>, OutNotSet)
      [] type = "MACVLAN" ->
          ValidParts(<<
             NM_META_SETTING_VALID_PART_ITEM("CONNECTION", TRUE),
             NM_META_SETTING_VALID_PART_ITEM("MACVLAN", TRUE),
             NM_META_SETTING_VALID_PART_ITEM("WIRED", FALSE),
             NM_META_SETTING_VALID_PART_ITEM("ETHTOOL", FALSE) >>, OutNotSet)
      [] type = "OLPC_MESH" ->
          ValidParts(<<
             NM_META_SETTING_VALID_PART_ITEM("CONNECTION", TRUE),
             NM_META_SETTING_VALID_PART_ITEM("OLPC_MESH", TRUE) >>, OutNotSet)
      [] type = "OVS_BRIDGE" ->
          ValidParts(<<
             NM_META_SETTING_VALID_PART_ITEM("CONNECTION", TRUE),
             NM_META_SETTING_VALID_PART_ITEM("OVS_BRIDGE", TRUE) >>, OutNotSet)
      [] type = "OVS_INTERFACE" ->
          ValidParts(<<
             NM_META_SETTING_VALID_PART_ITEM("CONNECTION", TRUE),
             NM_META_SETTING_VALID_PART_ITEM("OVS_INTERFACE", TRUE),
             NM_META_SETTING_VALID_PART_ITEM("OVS_PATCH", FALSE),
             NM_META_SETTING_VALID_PART_ITEM("IP4_CONFIG", FALSE),
             NM_META_SETTING_VALID_PART_ITEM("IP6_CONFIG", FALSE),
             NM_META_SETTING_VALID_PART_ITEM("WIRED", FALSE),
             NM_META_SETTING_VALID_PART_ITEM("ETHTOOL", FALSE) >>, OutNotSet)
      [] type = "OVS_PORT" ->
          ValidParts(<<
             NM_META_SETTING_VALID_PART_ITEM("CONNECTION", TRUE),
             NM_META_SETTING_VALID_PART_ITEM("OVS_PORT", TRUE) >>, OutNotSet)
      [] type = "PPPOE" ->
          ValidParts(<<
             NM_META_SETTING_VALID_PART_ITEM("CONNECTION", TRUE),
             NM_META_SETTING_VALID_PART_ITEM("PPPOE", TRUE),
             NM_META_SETTING_VALID_PART_ITEM("WIRED", TRUE),
             NM_META_SETTING_VALID_PART_ITEM("PPP", FALSE),
             NM_META_SETTING_VALID_PART_ITEM("802_1X", FALSE),
             NM_META_SETTING_VALID_PART_ITEM("ETHTOOL", FALSE) >>, OutNotSet)
      [] type = "TEAM" ->
          ValidParts(<<
             NM_META_SETTING_VALID_PART_ITEM("CONNECTION", TRUE),
             NM_META_SETTING_VALID_PART_ITEM("TEAM", TRUE),
             NM_META_SETTING_VALID_PART_ITEM("WIRED", FALSE),
             NM_META_SETTING_VALID_PART_ITEM("ETHTOOL", FALSE) >>, OutNotSet)
      [] type = "TUN" ->
          ValidParts(<<
             NM_META_SETTING_VALID_PART_ITEM("CONNECTION", TRUE),
             NM_META_SETTING_VALID_PART_ITEM("TUN", TRUE),
             NM_META_SETTING_VALID_PART_ITEM("WIRED", FALSE),
             NM_META_SETTING_VALID_PART_ITEM("ETHTOOL", FALSE) >>, OutNotSet)
      [] type = "VLAN" ->
          ValidParts(<<
             NM_META_SETTING_VALID_PART_ITEM("CONNECTION", TRUE),
             NM_META_SETTING_VALID_PART_ITEM("VLAN", TRUE),
             NM_META_SETTING_VALID_PART_ITEM("WIRED", FALSE),
             NM_META_SETTING_VALID_PART_ITEM("ETHTOOL", FALSE) >>, OutNotSet)
      [] type = "VPN" ->
          ValidParts(<<
             NM_META_SETTING_VALID_PART_ITEM("CONNECTION", TRUE),
             NM_META_SETTING_VALID_PART_ITEM("VPN", TRUE) >>, OutNotSet)
      [] type = "VXLAN" ->
          ValidParts(<<
             NM_META_SETTING_VALID_PART_ITEM("CONNECTION", TRUE),
             NM_META_SETTING_VALID_PART_ITEM("VXLAN", TRUE),
             NM_META_SETTING_VALID_PART_ITEM("WIRED", FALSE),
             NM_META_SETTING_VALID_PART_ITEM("ETHTOOL", FALSE) >>, OutNotSet)
      [] type = "WIFI_P2P" ->
          ValidParts(<<
             NM_META_SETTING_VALID_PART_ITEM("CONNECTION", TRUE),
             NM_META_SETTING_VALID_PART_ITEM("WIFI_P2P", TRUE) >>, OutNotSet)
      [] type = "WIMAX" ->
          ValidParts(<<
             NM_META_SETTING_VALID_PART_ITEM("CONNECTION", TRUE),
             NM_META_SETTING_VALID_PART_ITEM("WIMAX", TRUE) >>, OutNotSet)
      [] type = "WIRED" ->
          ValidParts(<<
             NM_META_SETTING_VALID_PART_ITEM("CONNECTION", TRUE),
             NM_META_SETTING_VALID_PART_ITEM("WIRED", TRUE),
             NM_META_SETTING_VALID_PART_ITEM("802_1X", FALSE),
             NM_META_SETTING_VALID_PART_ITEM("DCB", FALSE),
             NM_META_SETTING_VALID_PART_ITEM("SRIOV", FALSE),
             NM_META_SETTING_VALID_PART_ITEM("ETHTOOL", FALSE) >>, OutNotSet)
      [] type = "WIREGUARD" ->
          ValidParts(<<
             NM_META_SETTING_VALID_PART_ITEM("CONNECTION", TRUE),
             NM_META_SETTING_VALID_PART_ITEM("WIREGUARD", TRUE) >>, OutNotSet)
      [] type = "WIRELESS" ->
          ValidParts(<<
             NM_META_SETTING_VALID_PART_ITEM("CONNECTION", TRUE),
             NM_META_SETTING_VALID_PART_ITEM("WIRELESS", TRUE),
             NM_META_SETTING_VALID_PART_ITEM("WIRELESS_SECURITY", FALSE),
             NM_META_SETTING_VALID_PART_ITEM("802_1X", FALSE),
             NM_META_SETTING_VALID_PART_ITEM("ETHTOOL", FALSE) >>, OutNotSet)
      [] type = "WPAN" ->
          ValidParts(<<
             NM_META_SETTING_VALID_PART_ITEM("CONNECTION", TRUE),
             NM_META_SETTING_VALID_PART_ITEM("WPAN", TRUE) >>, OutNotSet)
      [] OTHER -> NoValidParts

NM_META_SETTING_TYPES ==
    {"6LOWPAN", "802_1X", "ADSL", "BLUETOOTH", "BOND", "BRIDGE", "BRIDGE_PORT", "CDMA", "CONNECTION", "DCB", "ETHTOOL", "DUMMY", "GENERIC", "GSM", "INFINIBAND", "IP4_CONFIG", "IP6_CONFIG", "IP_TUNNEL", "MACSEC", "MACVLAN", "MATCH", "OLPC_MESH", "OVS_BRIDGE", "OVS_INTERFACE", "OVS_PATCH", "OVS_PORT", "PPPOE", "PPP", "PROXY", "SERIAL", "SRIOV", "TC_CONFIG", "TEAM", "TEAM_PORT", "TUN", "USER", "VLAN", "VPN", "VXLAN", "WIFI_P2P", "WIMAX", "WIRED", "WIREGUARD", "WIRELESS", "WIRELESS_SECURITY", "WPAN"}

nm_meta_setting_info_valid_parts_for_slave_type(slave_type) ==
    IF slave_type = NULL THEN ValidParts(valid_settings_noslave, NULL)
    ELSE IF slave_type = NM_SETTING_BOND_SETTING_NAME
    THEN ValidParts(<<>>, <<"b", "o", "n", "d", "-", "s", "l", "a", "v", "e">>)
    ELSE IF slave_type = NM_SETTING_BRIDGE_SETTING_NAME
    THEN ValidParts(valid_settings_slave_bridge, <<"b", "r", "i", "d", "g", "e", "-", "s", "l", "a", "v", "e">>)
    ELSE IF slave_type = NM_SETTING_OVS_BRIDGE_SETTING_NAME
    THEN ValidParts(valid_settings_slave_ovs_bridge, <<"o", "v", "s", "-", "s", "l", "a", "v", "e">>)
    ELSE IF slave_type = NM_SETTING_OVS_PORT_SETTING_NAME
    THEN ValidParts(valid_settings_slave_ovs_port, <<"o", "v", "s", "-", "s", "l", "a", "v", "e">>)
    ELSE IF slave_type = NM_SETTING_TEAM_SETTING_NAME
    THEN ValidParts(valid_settings_slave_team, <<"t", "e", "a", "m", "-", "s", "l", "a", "v", "e">>)
    ELSE NoValidParts

(***************************************************************************)
(* The parsers of addresses and routes, applied to texts of both families: *)
(* fourth specification.                                                    *)
(***************************************************************************)
Parse(fcn, family, str, r) ==
    /\ last' = [NoCall EXCEPT !.op = fcn, !.prop = family, !.value = str,
                              !.res = IF r.ok THEN "ok" ELSE "error",
                              !.err = r.err, !.parsed = r.v, !.pre = obj]
    /\ UNCHANGED obj

ParseIpAddress(family, address) ==
    /\ Running
    /\ Parse("_parse_ip_address", family, address, _parse_ip_address(family, address))

ParseIpRoute(family, str) ==
    /\ Running
    /\ Parse("_parse_ip_route", family, str, _parse_ip_route(family, str))

MaxRouteTokens == 3

Families == {AF_INET, AF_INET6}
PrefixTexts ==
    {<<>>, <<"/">>, <<"/", "0">>, <<"/", "1">>, <<"/", "2", "4">>, <<"/", "3", "2">>,
     <<"/", "3", "3">>, <<"/", "1", "2", "8">>, <<"/", "1", "2", "9">>, <<"/", "a">>}
HostTexts == {<<"a">>, <<"c">>, <<"x">>}
AddressTexts ==
    {h \o pl : h \in HostTexts, pl \in PrefixTexts} \cup {<<" ", "a", "/", "1", " ">>}
RouteDestTexts ==
    {<<"a">>, <<"a", "/", "2", "4">>, <<"a", "/", "0">>, <<"c", "/", "1", "2", "8">>,
     <<"a", "/", "3", "3">>}
RouteTokens == {<<"a">>, <<"b">>, <<"c">>, <<"3">>, <<"5">>, <<"n", "=", "v">>, <<"x">>}
RouteTexts ==
    {JoinWith(<<d>> \o toks, <<" ">>) :
        d \in RouteDestTexts, toks \in UNION {[1..n -> RouteTokens] : n \in 0..MaxRouteTokens}}

ParseTeamLinkWatcher(str) ==
    /\ Running
    /\ Parse("_parse_team_link_watcher", "none", str, _parse_team_link_watcher(str))

\* the texts of watchers: a name, a number, the hosts, the flags and one
\* more token, each of them possibly left out
WatcherNameTokens ==
    {<<>>, <<"n", "a", "m", "e", "=", "e", "t", "h", "t", "o", "o", "l">>, <<"n", "a", "m", "e", "=", "n", "s", "n", "a", "_", "p", "i", "n", "g">>, <<"n", "a", "m", "e", "=", "a", "r", "p", "_", "p", "i", "n", "g">>, <<"n", "a", "m", "e", "=", "f", "o", "o">>}
WatcherNumberTokens ==
    {<<>>, <<"d", "e", "l", "a", "y", "-", "u", "p", "=", "2">>, <<"d", "e", "l", "a", "y", "-", "d", "o", "w", "n", "=", "1">>, <<"i", "n", "i", "t", "-", "w", "a", "i", "t", "=", "0">>, <<"i", "n", "t", "e", "r", "v", "a", "l", "=", "-", "1">>,
     <<"m", "i", "s", "s", "e", "d", "-", "m", "a", "x", "=", "0">>, <<"m", "i", "s", "s", "e", "d", "-", "m", "a", "x", "=", "5">>, <<"v", "l", "a", "n", "i", "d", "=", "0">>, <<"v", "l", "a", "n", "i", "d", "=", "-", "1">>, <<"v", "l", "a", "n", "i", "d", "=", "7">>,
     <<"v", "l", "a", "n", "i", "d", "=", "4", "0", "9", "5">>, <<"v", "l", "a", "n", "i", "d", "=", "-", "2">>, <<"d", "e", "l", "a", "y", "-", "u", "p", "=", "x">>}
WatcherHostTokens ==
    {<<>>, <<"t", "a", "r", "g", "e", "t", "-", "h", "o", "s", "t", "=", "a">>, <<"t", "a", "r", "g", "e", "t", "-", "h", "o", "s", "t", "=", "a", " ", "s", "o", "u", "r", "c", "e", "-", "h", "o", "s", "t", "=", "b">>}
WatcherFlagTokens ==
    {<<>>, <<"v", "a", "l", "i", "d", "a", "t", "e", "-", "a", "c", "t", "i", "v", "e", "=", "t", "r", "u", "e">>, <<"v", "a", "l", "i", "d", "a", "t", "e", "-", "i", "n", "a", "c", "t", "i", "v", "e", "=", "f", "a", "l", "s", "e">>, <<"s", "e", "n", "d", "-", "a", "l", "w", "a", "y", "s", "=", "t", "r", "u", "e">>,
     <<"v", "a", "l", "i", "d", "a", "t", "e", "-", "a", "c", "t", "i", "v", "e", "=", "t", "r", "u", "e", " ", "v", "a", "l", "i", "d", "a", "t", "e", "-", "i", "n", "a", "c", "t", "i", "v", "e", "=", "t", "r", "u", "e">>}
WatcherOtherTokens == {<<>>, <<"b", "o", "g", "u", "s", "=", "1">>, <<"a", "=", "b", "=", "c">>, <<"n", "o", "v", "a", "l", "u", "e">>, <<"d", "e", "l", "a", "y", "-", "d", "o", "w", "n", "=", "=", "4">>}
WatcherTexts ==
    {JoinWith(SelectSeq(<<n, v, h, f, x>>, LAMBDA t : t # <<>>), <<" ">>) :
        n \in WatcherNameTokens, v \in WatcherNumberTokens, h \in WatcherHostTokens,
        f \in WatcherFlagTokens, x \in WatcherOtherTokens}

ValidPartsForSlaveType(slave_type) ==
    /\ Running
    /\ last' = [NoCall EXCEPT
                  !.op = "nm_meta_setting_info_valid_parts_for_slave_type",
                  !.value = slave_type,
                  !.parsed = nm_meta_setting_info_valid_parts_for_slave_type(slave_type),
                  !.pre = obj]
    /\ UNCHANGED obj

SlaveTypes ==
    {NULL, <<"b", "o", "n", "d">>, <<"b", "r", "i", "d", "g", "e">>, <<"o", "v", "s", "-", "b", "r", "i", "d", "g", "e">>, <<"o", "v", "s", "-", "p", "o", "r", "t">>, <<"t", "e", "a", "m">>, <<"o", "v", "s", "-", "i", "n", "t", "e", "r", "f", "a", "c", "e">>,
     <<"8", "0", "2", "-", "3", "-", "e", "t", "h", "e", "r", "n", "e", "t">>, <<"v", "l", "a", "n">>, <<"B", "o", "n", "d">>, <<"b", "r", "i", "d", "g", "e", "-", "p", "o", "r", "t">>, <<>>}

SettingInfoValidParts(type) ==
    /\ Running
    /\ last' = [NoCall EXCEPT
                  !.op = "nm_meta_setting_infos_editor.valid_parts",
                  !.prop = type,
                  !.parsed = nm_meta_setting_infos_editor_valid_parts(type),
                  !.pre = obj]
    /\ UNCHANGED obj

NextParse ==
    \/ \E family \in Families, address \in AddressTexts : ParseIpAddress(family, address)
    \/ \E family \in Families, str \in RouteTexts : ParseIpRoute(family, str)
    \/ \E str \in WatcherTexts : ParseTeamLinkWatcher(str)
    \/ \E slave_type \in SlaveTypes : ValidPartsForSlaveType(slave_type)
    \/ \E type \in NM_META_SETTING_TYPES : SettingInfoValidParts(type)
    \/ Return

SpecParse == Init /\ [][NextParse]_vars

\* the tokens of the route text that follow the destination
RouteArgs == Tail(nm_utils_strsplit_set(g_strstrip(last.value), {" "}))
IsNextHopArg(t) == \A i \in 1..Len(t) : t[i] \in AddrChars(last.prop)
IsMetricArg(t) == \A i \in 1..Len(t) : t[i] \in Digits
IsAttributeArg(t) == \E i \in 1..Len(t) : t[i] = "="
Text_a_24 == <<"a", "/", "2", "4">>

\* C12: the order of the tokens of a route is enforced: a next hop that
\* comes after a metric or after an attribute is rejected, and so is a
\* metric that comes after an attribute; "dest/24 3 hop" is rejected while
\* "dest/24 hop 3" is accepted with that next hop and the metric 3.
C12_RouteTokenOrder ==
    last.op = "_parse_ip_route" =>
        /\ (\E i, j \in 1..Len(RouteArgs) :
                /\ i < j
                /\ \/ IsNextHopArg(RouteArgs[j])
                      /\ (IsMetricArg(RouteArgs[i]) \/ IsAttributeArg(RouteArgs[i]))
                   \/ IsMetricArg(RouteArgs[j]) /\ IsAttributeArg(RouteArgs[i]))
           => last.res = "error"
        /\ (last.prop = AF_INET /\ last.value = Text_a_24 \o <<" ", "3", " ", "a">>)
           => last.res = "error"
        /\ (last.prop = AF_INET /\ last.value = Text_a_24 \o <<" ", "a", " ", "3">>)
           => /\ last.res = "ok"
              /\ last.parsed = [dest |-> <<"a">>, prefix |-> 24,
                                next_hop |-> <<"a">>, metric |-> 3]

\* the route with the metric before the next hop was parsed and refused
\* for the place of its next hop
C12_Witness ==
    /\ last.op = "_parse_ip_route" /\ last.prop = AF_INET
    /\ last.value = Text_a_24 \o <<" ", "3", " ", "a">>
    /\ last.res = "error" /\ last.err = NextHopMustBeFirst(<<"a">>)

\* the address or destination of the parsed text, and the text after its '/'
ParsedFirst ==
    IF last.op = "_parse_ip_route"
    THEN Head(nm_utils_strsplit_set(g_strstrip(last.value), {" "}))
    ELSE g_strstrip(last.value)
ParsedHasPlen == \E i \in 1..Len(ParsedFirst) : ParsedFirst[i] = "/"
ParsedHost == SubSeq(ParsedFirst, 1, strchr(ParsedFirst, "/") - 1)
ParsedPlen == SubSeq(ParsedFirst, strchr(ParsedFirst, "/") + 1, Len(ParsedFirst))
ParsedPlenIsNumber == ParsedPlen # <<>> /\ \A i \in 1..Len(ParsedPlen) : ParsedPlen[i] \in Digits
FamilyMaximum == IF last.prop = AF_INET THEN 32 ELSE 128

\* C13: an address or a route destination without '/prefix' gets the
\* maximum prefix of the family (32 or 128); a numeric prefix p is accepted
\* if and only if 1 <= p <= maximum, 0 and maximum + 1 being refused with
\* the error about the prefix; an accepted "addr/p" has exactly the prefix
\* p; a route without a metric token has the metric -1 and one without an
\* address token has no next hop.
C13_PrefixAndDefaults ==
    last.op \in {"_parse_ip_address", "_parse_ip_route"} =>
        /\ (last.res = "ok" /\ ~ ParsedHasPlen) => last.parsed.prefix = FamilyMaximum
        /\ (ParsedHasPlen /\ ParsedPlenIsNumber) =>
              LET p == DecValue(ParsedPlen, 0)
              IN  /\ (p < 1 \/ p > FamilyMaximum)
                        => (last.res = "error" /\ last.err = InvalidPrefix(ParsedPlen))
                  /\ (1 <= p /\ p <= FamilyMaximum)
                        => /\ last.err # InvalidPrefix(ParsedPlen)
                           /\ last.res = "ok" => last.parsed.prefix = p
                           /\ (last.op = "_parse_ip_address" /\ IsNextHopArg(ParsedHost))
                                 => last.res = "ok"
        /\ (last.op = "_parse_ip_route" /\ last.res = "ok") =>
              /\ (\A i \in 1..Len(RouteArgs) : ~ IsMetricArg(RouteArgs[i]))
                    => last.parsed.metric = -1
              /\ (\A i \in 1..Len(RouteArgs) : ~ IsNextHopArg(RouteArgs[i]))
                    => last.parsed.next_hop = NULL

\* an IPv6 address with the largest prefix of its family was accepted
C13_Witness ==
    /\ last.op = "_parse_ip_address" /\ last.prop = AF_INET6
    /\ last.value = <<"c", "/", "1", "2", "8">>
    /\ last.res = "ok" /\ last.parsed.prefix = 128

(***************************************************************************)
(* The typed scalars: DCB flags and arrays, enumerations and flags: fifth  *)
(* specification.                                                          *)
(***************************************************************************)
\* the groups of typed properties that are edited together
TypedGroup(p) ==
    CASE p \in DcbFlagsProps \cup DcbArrayProps \cup DcbBoolProps
             -> DcbFlagsProps \cup DcbArrayProps \cup DcbBoolProps
      [] p \in {"wep_key_type", "wep_key0"} -> {"wep_key_type", "wep_key0"}
      [] OTHER -> {p}

TypedProps ==
    DcbFlagsProps \cup DcbArrayProps \cup DcbBoolProps \cup EnumProps \cup {"vlan_flags", "wep_key0"}
        \cup VlanMapProps \cup MacBlacklistProps \cup {"dns_options", "runner_tx_hash"}

\* one group is edited at a time
TypedEditable(p) == \A q \in TypedProps \ TypedGroup(p) : obj[q] = PspecDefault(q)

SetGobjectEnum(p, value) ==
    /\ Running
    /\ TypedEditable(p)
    /\ Modify("set", p, value, _set_fcn_gobject_enum(obj, p, value))

SetGobjectFlags(p, value) ==
    /\ Running
    /\ TypedEditable(p)
    /\ Modify("set", p, value, _set_fcn_gobject_flags(obj, p, value))

SetWirelessWepKey(p, value) ==
    /\ Running
    /\ TypedEditable(p)
    /\ Modify("set", p, value, _set_fcn_wireless_wep_key(obj, p, value))

FlagsTypedProps == {"psk_flags", "vlan_flags", "ip_tunnel_flags"} \cup DcbFlagsProps

EnumTexts ==
    {<<"0">>, <<"1">>, <<"2">>, <<"3">>, <<"1", "6">>, <<"0", "x", "1", "0">>, <<"0", "x", "1", "6">>, <<"n", "o", "n", "e">>, <<"k", "e", "y">>, <<"p", "a", "s", "s", "p", "h", "r", "a", "s", "e">>,
     <<"y", "e", "s">>, <<"x">>, <<>>, <<"1", ",", "2">>}
WepKeyTexts == {<<"a">>, <<"x">>, <<>>}

\* one DCB array is edited at a time
DcbEditable(p) ==
    /\ TypedEditable(p)
    /\ \A q \in (DcbArrayProps \cup DcbBoolProps) \ {p} : obj[q] = PspecDefault(q)

SetDcbFlags(p, value) ==
    /\ Running
    /\ TypedEditable(p)
    /\ Modify("set", p, value, _set_fcn_dcb_flags(obj, p, value))

SetDcb(p, value) ==
    /\ Running
    /\ DcbEditable(p)
    /\ Modify("set", p, value, _set_fcn_dcb(obj, p, value))

SetDcbBool(p, value) ==
    /\ Running
    /\ DcbEditable(p)
    /\ Modify("set", p, value, _set_fcn_dcb_bool(obj, p, value))

DcbFlagsTexts == {<<"0">>, <<"1">>, Text_enable, <<"x">>}
DcbItems ==
    {<<"0">>, <<"1">>, <<"7">>, <<"8">>, <<"1", "5">>, <<"1", "6">>, <<"5", "0">>,
     <<"1", "0", "0">>, <<"1", "0", "1">>, <<"a">>}
Zeros(n) == [i \in 1..n |-> <<"0">>]
DcbTexts ==
    {JoinWith(<<x, y>> \o Zeros(DcbSlots - 2), <<",">>) : x, y \in DcbItems}
        \cup {JoinWith(Zeros(DcbSlots - 1), <<",">>), JoinWith(Zeros(DcbSlots + 1), <<",">>), <<>>,
              JoinWith(Zeros(DcbSlots - 1) \o <<<<"a">>>>, <<",">>),
              JoinWith(Zeros(DcbSlots - 1) \o <<<<"1", "0", "1">>>>, <<",">>)}

SetVlanXgressPriorityMap(p, value) ==
    /\ Running
    /\ TypedEditable(p)
    /\ Modify("set", p, value, _set_fcn_vlan_xgress_priority_map(obj, p, value))

SetMacAddressBlacklist(p, value) ==
    /\ Running
    /\ TypedEditable(p)
    /\ value = NULL \/ Len(obj[p]) < MaxListLen
    /\ Modify("set", p, value, _set_fcn_wired_mac_address_blacklist(obj, p, value))

SetIpConfigDnsOptions(value) ==
    /\ Running
    /\ TypedEditable("dns_options")
    /\ Modify("set", "dns_options", value, _set_fcn_ip_config_dns_options(obj, "dns_options", value))

SetTeamRunnerTxHash(value) ==
    /\ Running
    /\ TypedEditable("runner_tx_hash")
    /\ Modify("set", "runner_tx_hash", value, _set_fcn_team_runner_tx_hash(obj, "runner_tx_hash", value))

DnsOptionItems == {<<"a">>, <<"b">>, <<"n", ":", "2">>}
DnsOptionTexts ==
    {<<>>, <<" ">>} \cup DnsOptionItems
      \cup {JoinWith(<<x, y>>, <<" ">>) : x, y \in DnsOptionItems}
      \cup {JoinWith(<<x, y, x>>, <<",">>) : x, y \in DnsOptionItems}
TxHashItems == {<<"e", "t", "h">>, <<"i", "p">>, <<"l", "4">>, <<"x">>}
TxHashTexts ==
    {<<>>, <<",">>} \cup TxHashItems
      \cup {JoinWith(<<x, y>>, <<",">>) : x, y \in TxHashItems}
      \cup {JoinWith(<<<<"e", "t", "h">>, <<"l", "4">>, x>>, <<" ">>) : x \in TxHashItems}

\* _get_fcn_gobject_enum for a descriptor with the rendering flags typ_flags;
\* nm_assert() ends the process in a build with NM_MORE_ASSERTS and is
\* empty in any other build
GetGobjectEnum(p, typ_flags, get_type, more_asserts) ==
    /\ Running
    /\ TypedEditable(p)
    /\ LET fmt == _get_fcn_gobject_enum_format(TRUE, typ_flags, get_type)
           g   == _get_fcn_gobject_enum_typ_flags(obj, p, TRUE, typ_flags, get_type)
           asserted == more_asserts /\ ~ _get_fcn_gobject_enum_assert(fmt)
       IN  last' = [op |-> "_get_fcn_gobject_enum", prop |-> p, value |-> NULL,
                    get_type |-> get_type, show_secrets |-> TRUE,
                    res |-> IF asserted THEN "crash" ELSE "ok", err |-> NULL,
                    ret |-> IF asserted THEN NULL ELSE g.ret,
                    is_default |-> IF asserted THEN "UNSET" ELSE g.is_default,
                    parsed |-> [typ_flags |-> typ_flags, fmt |-> fmt],
                    warn |-> NULL, pre |-> obj]
    /\ UNCHANGED obj

\* lists of mappings: of the priorities 1 and 7 (both sides allow them), of
\* 8 (only the wide side allows it), and items that are no mapping
VlanMapItems == {<<"1", ":", "7">>, <<"7", ":", "1">>, <<"1", ":", "1">>, <<"8", ":", "1">>, <<"1", ":", "8">>, <<"1">>, <<"x">>, <<>>}
VlanMapTexts ==
    {<<>>} \cup VlanMapItems
      \cup {JoinWith(<<x, y>>, <<",">>) : x, y \in VlanMapItems}
      \cup {JoinWith(<<<<"1", ":", "7">>, <<"7", ":", "1">>, x>>, <<",">>) : x \in VlanMapItems}
MacItems == {<<"1", ":", "2", ":", "3", ":", "4", ":", "5", ":", "6">>, <<"a", ":", "b", ":", "c", ":", "d", ":", "e", ":", "0", "f">>, <<"1", ":", "2", ":", "3", ":", "4", ":", "5">>, <<"1", ":", "2", ":", "3", ":", "4", ":", "5", ":", "g">>}
MacTexts ==
    {<<>>} \cup MacItems
      \cup {JoinWith(<<x, y>>, <<",">>) : x, y \in MacItems}
      \cup {JoinWith(<<<<"1", ":", "2", ":", "3", ":", "4", ":", "5", ":", "6">>, <<"a", ":", "b", ":", "c", ":", "d", ":", "e", ":", "0", "f">>, x>>, <<" ">>) : x \in MacItems}

NextTyped ==
    \/ \E p \in DcbFlagsProps, value \in DcbFlagsTexts \cup {NULL} : SetDcbFlags(p, value)
    \/ \E p \in DcbArrayProps, value \in DcbTexts \cup {NULL} : SetDcb(p, value)
    \/ \E p \in DcbBoolProps, value \in DcbTexts \cup {NULL} : SetDcbBool(p, value)
    \/ \E p \in EnumProps, value \in EnumTexts \cup {NULL} : SetGobjectEnum(p, value)
    \/ \E value \in EnumTexts \cup {NULL} : SetGobjectFlags("vlan_flags", value)
    \/ \E value \in WepKeyTexts \cup {NULL} : SetWirelessWepKey("wep_key0", value)
    \/ \E p \in EnumProps, typ_flags \in SUBSET NM_META_PROPERTY_TYP_FLAG_ENUM_GET,
          get_type \in {"parsable", "pretty"}, more_asserts \in BOOLEAN :
          GetGobjectEnum(p, typ_flags, get_type, more_asserts)
    \/ \E value \in DnsOptionTexts \cup {NULL} : SetIpConfigDnsOptions(value)
    \/ \E value \in TxHashTexts \cup {NULL} : SetTeamRunnerTxHash(value)
    \/ \E p \in VlanMapProps, value \in VlanMapTexts \cup {NULL} : SetVlanXgressPriorityMap(p, value)
    \/ \E p \in MacBlacklistProps, value \in MacTexts \cup {NULL} : SetMacAddressBlacklist(p, value)
    \/ \E p \in FlagsTypedProps \cup EnumProps \cup {"wep_key0"},
          get_type \in {"parsable", "pretty"} : Get(p, get_type, TRUE)
    \/ Return

SpecTyped == Init /\ [][NextTyped]_vars

\* the items of the text of the call, and what the claim asks of them
SetItems == g_strsplit_set(last.value, {","})
ItemIsNumber(item) == item # <<>> /\ \A i \in 1..Len(item) : item[i] \in Digits
SlotMaximum == CASE last.prop = "priority_group_id" -> 7
                 [] last.prop = "priority_group_bandwidth" -> 100
                 [] OTHER -> 1
SlotSentinel == IF last.prop = "priority_group_id" THEN {15} ELSE {}
ItemInRange(item) ==
    /\ ItemIsNumber(item)
    /\ DecValue(item, 0) <= SlotMaximum \/ DecValue(item, 0) \in SlotSentinel
RECURSIVE ItemSum(_)
ItemSum(items) == IF items = <<>> THEN 0 ELSE DecValue(Head(items), 0) + ItemSum(Tail(items))

\* C14: the text of a DCB array of 8 slots is accepted if and only if it
\* has exactly 8 comma-separated items, each an integer in [0, max] or the
\* 'other' sentinel (group id: 0..7 or 15), and, for the percentage
\* property, the 8 values total exactly 100; an item out of range is
\* reported even when the total is wrong too.
C14_DcbArrayAccepted ==
    (   last.op = "set" /\ last.prop \in DcbArrayProps \cup DcbBoolProps
     /\ last.value # NULL) =>
        LET inRange == Len(SetItems) = DcbSlots
                       /\ \A i \in 1..DcbSlots : ItemInRange(SetItems[i])
        IN  /\ last.res = "ok" <=>
                 /\ inRange
                 /\ last.prop = "priority_group_bandwidth" => ItemSum(SetItems) = 100
            /\ (Len(SetItems) = DcbSlots /\ ~ inRange) =>
                  \E i \in 1..DcbSlots :
                      /\ ~ ItemInRange(SetItems[i])
                      /\ last.err = NotANumberBetween(SetItems[i])

\* a group id array with the sentinel 15 in its first slot was stored
C14_Witness ==
    /\ last.op = "set" /\ last.prop = "priority_group_id" /\ last.res = "ok"
    /\ last.value = JoinWith(<<<<"1", "5">>, <<"7">>>> \o Zeros(DcbSlots - 2), <<",">>)
    /\ obj.priority_group_id = <<15, 7, 0, 0, 0, 0, 0, 0>>

C16_WatcherRoundTrip ==
    (last.op = "_parse_team_link_watcher" /\ last.res = "ok") =>
        LET again == _parse_team_link_watcher(_dump_team_link_watcher(last.parsed))
        IN  again.ok /\ again.v = last.parsed

\* C17: for every enum- or flags-typed property and every stored value,
\* feeding the Parsable rendering of the value back into the setter of the
\* property stores the same value again.
C17_EnumRoundTrip ==
    (last.op = "get" /\ last.prop \in EnumProps /\ last.get_type = "parsable") =>
        LET again == _set_fcn_gobject_enum(obj, last.prop, last.ret)
        IN  again.res = "ok" /\ again.obj[last.prop] = obj[last.prop]

\* the value that the text of the call spells for the property of the call
WepKeyTypeOfText ==
    CASE last.value \in {<<"1">>, <<"k", "e", "y">>}        -> NM_WEP_KEY_TYPE_KEY
      [] last.value \in {<<"2">>, <<"p", "a", "s", "s", "p", "h", "r", "a", "s", "e">>} -> NM_WEP_KEY_TYPE_PASSPHRASE
      [] OTHER                                -> NM_WEP_KEY_TYPE_UNKNOWN
ValueOfText ==
    CASE last.prop \in DcbArrayProps -> [i \in 1..DcbSlots |-> DecValue(SetItems[i], 0)]
      [] last.prop \in DcbBoolProps  -> [i \in 1..DcbSlots |-> DecValue(SetItems[i], 0) # 0]
      [] last.prop = "wep_key_type"  -> WepKeyTypeOfText
      [] OTHER                       -> last.value

\* C18: a set that raises an advisory warning still applies its mutation and
\* returns success: a DCB array or boolean-array set while the flags lack
\* 'enable', and a wep-key-type set to a type that does not fit the stored
\* key, store the new value, and the warning leaves the result a success.
C18_WarningNeverBlocks ==
    (   last.op = "set" /\ last.warn # NULL
     /\ last.prop \in DcbArrayProps \cup DcbBoolProps \cup {"wep_key_type", "wep_key0"})
    => /\ last.res = "ok"
       /\ last.err = NULL
       /\ obj[last.prop] = ValueOfText

\* the type 'key' is set while the stored key "x" is no hexadecimal key: the
\* warning is given and the type is stored
C18_Witness ==
    /\ last.op = "set" /\ last.prop = "wep_key_type" /\ last.warn # NULL
    /\ last.pre.wep_key0 = <<"x">> /\ last.pre.wep_key_type = NM_WEP_KEY_TYPE_PASSPHRASE
    /\ last.res = "ok" /\ obj.wep_key_type = NM_WEP_KEY_TYPE_KEY

\* C19: no set call with a non-null text ends in a process-level failure:
\* for every list-valued property, also for a text that is empty or holds
\* only separators, set returns success or an error result.
C19_SetNeverCrashes ==
    (last.op = "set" /\ last.prop \in ListProps /\ last.value # NULL)
    => last.res \in {"ok", "error"}

\* the setting types of a list of companions, and whether each is mandatory
PartTypes(parts) == [i \in 1..Len(parts) |-> parts[i].setting_type]
PartsAll(parts, mandatory) == \A i \in 1..Len(parts) : parts[i].mandatory = mandatory

\* C20: the companion settings by slave type: none -> match, ipv4, ipv6, tc
\* and proxy, all optional; bridge -> bridge-port mandatory; team ->
\* team-port mandatory; ovs-bridge -> ovs-port optional; ovs-port ->
\* ovs-interface optional; bond -> an empty list; any other -> NULL.
C20_ValidPartsForSlaveType ==
    last.op = "nm_meta_setting_info_valid_parts_for_slave_type" =>
        LET r == last.parsed
            is(types, mandatory) ==
                ~ r.is_null /\ PartTypes(r.parts) = types /\ PartsAll(r.parts, mandatory)
        IN  CASE last.value = NULL ->
                   is(<<"MATCH", "IP4_CONFIG", "IP6_CONFIG", "TC_CONFIG", "PROXY">>, FALSE)
              [] last.value = <<"b", "r", "i", "d", "g", "e">>     -> is(<<"BRIDGE_PORT">>, TRUE)
              [] last.value = <<"t", "e", "a", "m">>       -> is(<<"TEAM_PORT">>, TRUE)
              [] last.value = <<"o", "v", "s", "-", "b", "r", "i", "d", "g", "e">> -> is(<<"OVS_PORT">>, FALSE)
              [] last.value = <<"o", "v", "s", "-", "p", "o", "r", "t">>   -> is(<<"OVS_INTERFACE">>, FALSE)
              [] last.value = <<"b", "o", "n", "d">>       -> ~ r.is_null /\ r.parts = <<>>
              [] OTHER                      -> r.is_null

C20_Witness ==
    /\ last.op = "nm_meta_setting_info_valid_parts_for_slave_type"
    /\ last.value = <<"o", "v", "s", "-", "b", "r", "i", "d", "g", "e">>
    /\ ~ last.parsed.is_null
    /\ last.parsed.parts = << [setting_type |-> "OVS_PORT", mandatory |-> FALSE] >>

\* the companions of the list the call gave, by their mandatory flag
PartsWith(mandatory) ==
    {last.parsed.parts[i].setting_type :
        i \in {j \in 1..Len(last.parsed.parts) : last.parsed.parts[j].mandatory = mandatory}}
HasValidParts ==
    last.op = "nm_meta_setting_infos_editor.valid_parts" /\ ~ last.parsed.is_null
WifiCompanionsOptional ==
    last.prop = "WIRELESS" => {"WIRELESS_SECURITY", "802_1X"} \subseteq PartsWith(FALSE)

\* C21 as stated: for every connection type with a companion list, only the
\* connection setting and the type's own setting are mandatory, every other
\* companion is optional; wifi has wifi-sec and 802-1x among the optional.
C21_OnlyBaseMandatory ==
    HasValidParts =>
        /\ PartsWith(TRUE) = {"CONNECTION", last.prop}
        /\ PartsWith(TRUE) \cap PartsWith(FALSE) = {}
        /\ WifiCompanionsOptional

\* C21 amended: the same, except that the list of pppoe also marks the wired
\* setting as mandatory.
C21_OnlyBaseMandatoryButPppoe ==
    HasValidParts =>
        /\ PartsWith(TRUE) = {"CONNECTION", last.prop}
                                \cup (IF last.prop = "PPPOE" THEN {"WIRED"} ELSE {})
        /\ PartsWith(TRUE) \cap PartsWith(FALSE) = {}
        /\ WifiCompanionsOptional

C21_Witness ==
    /\ HasValidParts /\ last.prop = "WIRELESS"
    /\ PartsWith(TRUE) = {"CONNECTION", "WIRELESS"}
    /\ PartsWith(FALSE) = {"WIRELESS_SECURITY", "802_1X", "ETHTOOL"}

(***************************************************************************)
(* Two edit sessions, each with its own ConfigurationObject, over the one  *)
(* registry of property descriptors: sixth specification.  Here obj holds  *)
(* the objects of the sessions and the registry, and last the calls each   *)
(* session has made.                                                        *)
(***************************************************************************)
MaxSessionCalls == 2

Sessions == {1, 2}

\* the descriptors of the registry: the property type of each property
nm_meta_property_infos ==
    [uuid |-> "_pt_gobject_string", autoconnect |-> "_pt_gobject_bool",
     eap |-> "_pt_multilist"]

\* the call through .set_fcn of a property type
property_type_set_fcn(property_type, o, p, value) ==
    CASE property_type = "_pt_gobject_string" -> _set_fcn_gobject_string(o, p, value)
      [] property_type = "_pt_gobject_bool"   -> _set_fcn_gobject_bool(o, p, value)
      [] property_type = "_pt_multilist"      -> _set_fcn_multilist(o, p, value)

\* one call of a session on the setting it holds, through the descriptor
\* that the registry has for the property: [obj, res, ret]
SessionCallResult(registry, o, call) ==
    CASE call.op = "set" ->
           LET r == property_type_set_fcn(registry[call.prop], o, call.prop, call.value)
           IN  [obj |-> r.obj, res |-> r.res, ret |-> NULL]
      [] call.op = "remove" ->
           LET r == IF registry[call.prop] = "_pt_multilist"
                    THEN _remove_fcn_multilist(o, call.prop, call.value)
                    ELSE Ok(o)
           IN  [obj |-> r.obj, res |-> r.res, ret |-> NULL]
      [] call.op = "get" ->
           [obj |-> o, res |-> "ok",
            ret |-> _meta_type_property_info_get_fcn(o, call.prop, "parsable", FALSE).ret]

\* every session's object after the call: one object for all sessions
SessionObjectsAfter_shared(objs, s, call) ==
    [objs EXCEPT !.setting =
        [t \in Sessions |-> SessionCallResult(objs.registry, objs.setting[s], call).obj]]

\* every session's object after the call: a handler works on the setting
\* it is handed (NMSetting *setting) and reads the descriptor (const)
SessionObjectsAfter(objs, s, call) ==
    [objs EXCEPT !.setting[s] = SessionCallResult(objs.registry, @, call).obj]

SessionCall(s, call) ==
    /\ Len(last.calls[s]) < MaxSessionCalls
    /\ obj' = SessionObjectsAfter(obj, s, call)
    /\ LET r == SessionCallResult(obj.registry, obj.setting[s], call)
       IN  last' = [op |-> call.op, session |-> s, prop |-> call.prop,
                    value |-> call.value, res |-> r.res, ret |-> r.ret,
                    calls |-> [last.calls EXCEPT ![s] = Append(@, call)]]

SessionCalls ==
    { [op |-> "set", prop |-> "uuid", value |-> <<"a">>],
      [op |-> "set", prop |-> "eap", value |-> <<"a">>],
      [op |-> "set", prop |-> "eap", value |-> <<"1", "a">>],
      [op |-> "set", prop |-> "autoconnect", value |-> <<"n", "o">>],
      [op |-> "remove", prop |-> "eap", value |-> <<"0">>],
      [op |-> "get", prop |-> "eap", value |-> NULL] }

InitSessions ==
    /\ obj = [setting |-> [s \in Sessions |-> InitObj], registry |-> nm_meta_property_infos]
    /\ last = [op |-> "none", session |-> 0, prop |-> "none", value |-> NULL,
               res |-> "none", ret |-> NULL, calls |-> [s \in Sessions |-> <<>>]]

NextSessions == \E s \in Sessions, call \in SessionCalls : SessionCall(s, call)

SpecSessions == InitSessions /\ [][NextSessions]_vars

\* the object of a session that makes the calls with no other session
RECURSIVE RunAlone(_, _)
RunAlone(o, calls) ==
    IF calls = <<>> THEN o
    ELSE RunAlone(SessionCallResult(nm_meta_property_infos, o, Head(calls)).obj, Tail(calls))

RouteArgsBeforeAttribute ==
    LET first == CHOOSE n \in 1..(Len(RouteArgs) + 1) :
                    /\ n = Len(RouteArgs) + 1 \/ IsAttributeArg(RouteArgs[n])
                    /\ \A m \in 1..(n - 1) : ~ IsAttributeArg(RouteArgs[m])
    IN  SubSeq(RouteArgs, 1, first - 1)
RouteNextHopArgs == SelectSeq(RouteArgsBeforeAttribute, IsNextHopArg)
RouteMetricArgs == SelectSeq(RouteArgsBeforeAttribute, IsMetricArg)

\* C23: of several address tokens, or several integer tokens, that follow
\* the destination of an accepted route before any attribute, the first
\* one becomes the next hop, respectively the metric; a later token of the
\* same kind does not replace it.
C23_FirstTokenWins ==
    (last.op = "_parse_ip_route" /\ last.res = "ok") =>
        /\ Len(RouteNextHopArgs) > 1 => last.parsed.next_hop = RouteNextHopArgs[1]
        /\ Len(RouteMetricArgs) > 1
           => last.parsed.metric = _nm_utils_ascii_str_to_int64(RouteMetricArgs[1], 0, G_MAXUINT32, -1)

\* what the loop does: each address and each integer is stored over the
\* one before it, so the last one of each kind is the one in the route
C23_LastTokenWins ==
    (last.op = "_parse_ip_route" /\ last.res = "ok") =>
        /\ Len(RouteNextHopArgs) > 1
           => last.parsed.next_hop = RouteNextHopArgs[Len(RouteNextHopArgs)]
        /\ Len(RouteMetricArgs) > 1
           => last.parsed.metric = _nm_utils_ascii_str_to_int64(RouteMetricArgs[Len(RouteMetricArgs)], 0, G_MAXUINT32, -1)

\* "a/24 a b 3" was accepted with the next hop b, "a/24 3 5" with metric 5
C23_Witness ==
    /\ last.op = "_parse_ip_route" /\ last.prop = AF_INET /\ last.res = "ok"
    /\ \/ last.value = Text_a_24 \o <<" ", "a", " ", "b", " ", "3">> /\ last.parsed.next_hop = <<"b">>
       \/ last.value = Text_a_24 \o <<" ", "3", " ", "5">> /\ last.parsed.metric = 5

\* the tokens of the watcher text and, of a token, the parts around '='
\* (a run of '=' separates like one '=')
WatcherArgs == nm_utils_strsplit_set(last.value, {" ", "\t"})
WatcherPair(t) == nm_utils_strsplit_set(t, {"="})
WatcherNumberKeys == {<<"d", "e", "l", "a", "y", "-", "u", "p">>, <<"d", "e", "l", "a", "y", "-", "d", "o", "w", "n">>, <<"i", "n", "i", "t", "-", "w", "a", "i", "t">>, <<"i", "n", "t", "e", "r", "v", "a", "l">>, <<"m", "i", "s", "s", "e", "d", "-", "m", "a", "x">>}
IsNumberText(v) ==
    /\ v # <<>>
    /\ \A i \in 1..Len(v) : v[i] \in Digits \/ (i = 1 /\ v[i] = "-" /\ Len(v) > 1)
NumberOfText(v) == IF Head(v) = "-" THEN 0 - DecValue(Tail(v), 0) ELSE DecValue(v, 0)
NumberTextIn(v, min, max) == IsNumberText(v) /\ NumberOfText(v) >= min /\ NumberOfText(v) <= max

\* why a token of a watcher text is refused, or NULL if it is a pair of a
\* known key and a value that the key allows
WatcherTokenFault(t) ==
    LET pair == WatcherPair(t)
    IN  IF Len(pair) = 1 THEN <<"missing key value">>
        ELSE IF Len(pair) # 2 THEN <<"properties should be specified as 'key=value'">>
        ELSE IF pair[1] \notin WatcherKeys THEN <<"unknown key">>
        ELSE IF pair[1] \in WatcherNumberKeys /\ ~ NumberTextIn(pair[2], 0, G_MAXINT32)
        THEN <<"value is not a valid number [0, MAXINT]">>
        ELSE IF pair[1] = <<"v", "l", "a", "n", "i", "d">> /\ ~ NumberTextIn(pair[2], -1, 4094)
        THEN <<"value is not a valid number [-1, 4094]">>
        ELSE NULL
WatcherFaults == SelectSeq(WatcherArgs, LAMBDA t : WatcherTokenFault(t) # NULL)
WatcherNames ==
    SelectSeq(WatcherArgs, LAMBDA t : Len(WatcherPair(t)) = 2 /\ WatcherPair(t)[1] = <<"n", "a", "m", "e">>)

\* C24: parsing a link watcher fails when the text has no 'name' key
\* ("link watcher name missing") or the name is not ethtool, nsna_ping or
\* arp_ping ("unknown link watcher name"); and it fails with an error that
\* names the offending token when a token has an unknown key, is not
\* exactly one key=value pair, or gives a number outside [0, MAXINT]
\* (delays, interval, missed-max) or outside [-1, 4094] (vlanid).
C24_WatcherErrors ==
    last.op = "_parse_team_link_watcher" =>
        /\ WatcherFaults # <<>>
           => /\ last.res = "error"
              /\ \E i \in 1..Len(last.err) : last.err[i] = Head(WatcherFaults)[1]
              /\ last.err = <<"'">> \o Head(WatcherFaults)
                              \o <<"' is not valid: ", WatcherTokenFault(Head(WatcherFaults))[1]>>
        /\ (WatcherFaults = <<>> /\ WatcherNames = <<>>)
           => /\ last.res = "error"
              /\ WatcherArgs # <<>> => last.err = <<"link watcher name missing">>
        /\ (WatcherFaults = <<>> /\ Len(WatcherNames) = 1
              /\ WatcherPair(WatcherNames[1])[2] \notin {<<"e", "t", "h", "t", "o", "o", "l">>, <<"n", "s", "n", "a", "_", "p", "i", "n", "g">>, <<"a", "r", "p", "_", "p", "i", "n", "g">>})
           => /\ last.res = "error"
              /\ last.err = <<"unknown link watcher name: '">>
                              \o WatcherPair(WatcherNames[1])[2] \o <<"'">>

\* an ethtool watcher with the vlanid 4095 was refused for that token, and
\* so was a text of valid pairs without a name
C24_Witness ==
    /\ last.op = "_parse_team_link_watcher" /\ last.res = "error"
    /\ \/ /\ last.value = <<"n", "a", "m", "e", "=", "e", "t", "h", "t", "o", "o", "l", " ", "v", "l", "a", "n", "i", "d", "=", "4", "0", "9", "5">>
          /\ last.err = <<"'">> \o <<"v", "l", "a", "n", "i", "d", "=", "4", "0", "9", "5">>
                          \o <<"' is not valid: ", "value is not a valid number [-1, 4094]">>
       \/ /\ last.value = <<"d", "e", "l", "a", "y", "-", "u", "p", "=", "2", " ", "t", "a", "r", "g", "e", "t", "-", "h", "o", "s", "t", "=", "a">>
          /\ last.err = <<"link watcher name missing">>

\* the keys of each kind of link watcher besides 'name'
WatcherKeysOfKind(name) ==
    CASE name = <<"e", "t", "h", "t", "o", "o", "l">> -> {<<"d", "e", "l", "a", "y", "-", "u", "p">>, <<"d", "e", "l", "a", "y", "-", "d", "o", "w", "n">>}
      [] name = <<"n", "s", "n", "a", "_", "p", "i", "n", "g">> -> {<<"i", "n", "i", "t", "-", "w", "a", "i", "t">>, <<"i", "n", "t", "e", "r", "v", "a", "l">>, <<"m", "i", "s", "s", "e", "d", "-", "m", "a", "x">>, <<"t", "a", "r", "g", "e", "t", "-", "h", "o", "s", "t">>}
      [] name = <<"a", "r", "p", "_", "p", "i", "n", "g">> ->
           {<<"i", "n", "i", "t", "-", "w", "a", "i", "t">>, <<"i", "n", "t", "e", "r", "v", "a", "l">>, <<"m", "i", "s", "s", "e", "d", "-", "m", "a", "x">>, <<"v", "l", "a", "n", "i", "d">>, <<"t", "a", "r", "g", "e", "t", "-", "h", "o", "s", "t">>, <<"s", "o", "u", "r", "c", "e", "-", "h", "o", "s", "t">>,
            <<"v", "a", "l", "i", "d", "a", "t", "e", "-", "a", "c", "t", "i", "v", "e">>, <<"v", "a", "l", "i", "d", "a", "t", "e", "-", "i", "n", "a", "c", "t", "i", "v", "e">>, <<"s", "e", "n", "d", "-", "a", "l", "w", "a", "y", "s">>}
      [] OTHER -> {}
WatcherKind == WatcherPair(WatcherNames[1])[2]
WatcherForeignArgs ==
    SelectSeq(WatcherArgs,
              LAMBDA t : /\ Len(WatcherPair(t)) = 2
                         /\ WatcherPair(t)[1] \in WatcherKeys \ {<<"n", "a", "m", "e">>}
                         /\ WatcherPair(t)[1] \notin WatcherKeysOfKind(WatcherKind))

\* C25: each kind of link watcher accepts only its own keys: a text that
\* names ethtool, nsna_ping or arp_ping and holds a key of another kind
\* (target-host or init-wait with ethtool, delay-up or delay-down with a
\* ping watcher) is rejected, so no watcher is built from it.
C25_OwnKeysOnly ==
    (/\ last.op = "_parse_team_link_watcher"
     /\ Len(WatcherNames) = 1
     /\ WatcherKind \in {<<"e", "t", "h", "t", "o", "o", "l">>, <<"n", "s", "n", "a", "_", "p", "i", "n", "g">>, <<"a", "r", "p", "_", "p", "i", "n", "g">>}
     /\ WatcherForeignArgs # <<>>)
    => last.res = "error"

\* what the parser does instead: "name=nsna_ping delay-up=2 target-host=a"
\* is accepted, and the delay-up of the ethtool watcher is the init-wait of
\* the watcher that is built
C25_Witness ==
    /\ last.op = "_parse_team_link_watcher" /\ last.res = "ok"
    /\ last.value = <<"n", "a", "m", "e", "=", "n", "s", "n", "a", "_", "p", "i", "n", "g", " ", "d", "e", "l", "a", "y", "-", "u", "p", "=", "2", " ", "t", "a", "r", "g", "e", "t", "-", "h", "o", "s", "t", "=", "a">>
    /\ last.parsed.init_wait = 2

\* what the claim calls an invalid element: a mapping that is not
\* "number:number" with the 802.1p side at most 7, a MAC that is not six
\* groups of hex digits, a DCB slot that is no number within its range
IsMappingText(item) ==
    LET colon == strchr(item, ":")
        from  == SubSeq(item, 1, colon - 1)
        to    == SubSeq(item, colon + 1, Len(item))
    IN  /\ colon # 0
        /\ ItemIsNumber(from) /\ ItemIsNumber(to)
        /\ IF last.prop = "ingress_priority_map" THEN DecValue(from, 0) <= 7
                                                  ELSE DecValue(to, 0) <= 7
IsMacText(item) ==
    /\ Len(SelectSeq(item, LAMBDA c : c \in {":", "-"})) = 5
    /\ \A i \in 1..Len(item) :
          \/ item[i] \in HexDigits
          \/ item[i] \in {":", "-"} /\ i > 1 /\ i < Len(item) /\ item[i - 1] \in HexDigits
    /\ \A i \in 1..(Len(item) - 2) :
          ~ (item[i] \in HexDigits /\ item[i + 1] \in HexDigits /\ item[i + 2] \in HexDigits)
AtomicProps == VlanMapProps \cup MacBlacklistProps \cup DcbArrayProps \cup DcbBoolProps
HasInvalidElement ==
    CASE last.prop \in VlanMapProps ->
             \E i \in 1..Len(SetItems) : ~ IsMappingText(SetItems[i])
      [] last.prop \in MacBlacklistProps ->
             LET strv == nm_utils_strsplit_set(last.value, {" ", "\t", ","})
             IN  \E i \in 1..Len(strv) : ~ IsMacText(strv[i])
      [] OTHER -> \E i \in 1..Len(SetItems) : ~ ItemInRange(SetItems[i])

\* C26: the setters of the VLAN priority maps, of the MAC blacklist and of
\* the DCB arrays validate the whole text first: a text with an invalid
\* element at any position is refused and leaves the object as it was, no
\* mapping, address or slot of the text being stored.
C26_InvalidElementAppliesNothing ==
    (/\ last.op = "set" /\ last.prop \in AtomicProps
     /\ last.value # NULL /\ HasInvalidElement)
    => last.res = "error" /\ obj = last.pre

\* a text whose third element is invalid, after two valid ones, was refused
\* with a list that holds one element already
C26_Witness ==
    /\ last.op = "set" /\ last.res = "error"
    /\ \/ /\ last.prop = "ingress_priority_map"
          /\ last.value = <<"1", ":", "7", ",", "7", ":", "1", ",", "8", ":", "1">>
          /\ last.err = <<"invalid priority map '">> \o <<"8", ":", "1">> \o <<"'">>
          /\ obj.ingress_priority_map = <<[from |-> 1, to |-> 1]>>
       \/ /\ last.prop = "mac_address_blacklist"
          /\ last.value = <<"1", ":", "2", ":", "3", ":", "4", ":", "5", ":", "6", " ", "a", ":", "b", ":", "c", ":", "d", ":", "e", ":", "0", "f", " ", "1", ":", "2", ":", "3", ":", "4", ":", "5", ":", "g">>
          /\ obj.mac_address_blacklist = <<<<"a", ":", "b", ":", "c", ":", "d", ":", "e", ":", "0", "f">>>>

C27_EnumFormatSelectedUnlessParsableNumeric ==
    last.op = "_get_fcn_gobject_enum" =>
        (last.parsed.fmt.format_text \/ last.parsed.fmt.format_numeric)
            <=> \/ last.get_type = "pretty"
                \/ "ENUM_GET_PARSABLE_TEXT" \in last.parsed.typ_flags
                \/ last.parsed.typ_flags
                     \cap {"ENUM_GET_PARSABLE_NUMERIC", "ENUM_GET_PARSABLE_NUMERIC_HEX"} = {}

\* the wep key type "key" of a descriptor flagged parsable-numeric was got
\* in Parsable mode: in a build without assertions the text is returned
C27_Witness ==
    /\ last.op = "_get_fcn_gobject_enum" /\ last.prop = "wep_key_type"
    /\ last.get_type = "parsable" /\ last.parsed.typ_flags = {"ENUM_GET_PARSABLE_NUMERIC"}
    /\ obj.wep_key_type = 1
    /\ last.res = "ok" /\ last.ret = <<"k", "e", "y">>

DnsOptionsSet == nm_utils_strsplit_set(last.value, {" ", "\t", ","})
DnsOptionsBefore == nm_setting_ip_config_get_dns_options(last.pre)
DnsOptionsAfter == nm_setting_ip_config_get_dns_options(obj)
Occurrences(list, e) == Cardinality({i \in 1..Len(list) : list[i] = e})

\* C29: a set of DNS options creates no duplicate: an option of the text
\* that the list held already occurs exactly once afterwards, the last
\* option of the text is the last element, the options that the text does
\* not name keep their order, and the same set once more changes nothing.
C29_DnsOptionsNoDuplicate ==
    (last.op = "set" /\ last.prop = "dns_options" /\ last.value # NULL /\ DnsOptionsSet # <<>>)
    => /\ last.res = "ok"
       /\ \A i \in 1..Len(DnsOptionsSet) : Occurrences(DnsOptionsAfter, DnsOptionsSet[i]) = 1
       /\ \A i \in 1..Len(DnsOptionsAfter) : Occurrences(DnsOptionsAfter, DnsOptionsAfter[i]) = 1
       /\ DnsOptionsAfter[Len(DnsOptionsAfter)] = DnsOptionsSet[Len(DnsOptionsSet)]
       /\ LET kept(e) == \A i \in 1..Len(DnsOptionsSet) : DnsOptionsSet[i] # e
          IN  SelectSeq(DnsOptionsAfter, kept) = SelectSeq(DnsOptionsBefore, kept)
       /\ _set_fcn_ip_config_dns_options(obj, "dns_options", last.value).obj = obj

\* "a" was set onto the list [a, b]: the list is [b, a]
C29_Witness ==
    /\ last.op = "set" /\ last.prop = "dns_options" /\ last.value = <<"a">>
    /\ last.pre.dns_options = <<<<"a">>, <<"b">>>>
    /\ obj.dns_options = <<<<"b">>, <<"a">>>>

\* the items of the text of a set on the tx-hash
TxHashSet == nm_utils_strsplit_set(last.value, {" ", "\t", ","})
IsTxHashName(e) == e \in {<<"e", "t", "h">>, <<"v", "l", "a", "n">>, <<"i", "p", "v", "4">>, <<"i", "p", "v", "6">>, <<"i", "p">>, <<"l", "3">>, <<"t", "c", "p">>, <<"u", "d", "p">>, <<"s", "c", "t", "p">>, <<"l", "4">>}

\* C30: a set on the tx-hash of the team runner replaces the list: when
\* every item of the text is a tx-hash name the list is exactly the items
\* of the text in their order, nothing of the previous list being left;
\* when an item is not, the call fails and the previous list is kept.
C30_TxHashReplaces ==
    (last.op = "set" /\ last.prop = "runner_tx_hash" /\ last.value # NULL)
    => IF \A i \in 1..Len(TxHashSet) : IsTxHashName(TxHashSet[i])
       THEN last.res = "ok" /\ obj.runner_tx_hash = TxHashSet
       ELSE last.res = "error" /\ obj = last.pre

\* "ip" was set onto [eth, l4]: the list is [ip]; and "eth l4 x" was
\* refused on a list that is not empty
C30_Witness ==
    /\ last.op = "set" /\ last.prop = "runner_tx_hash"
    /\ \/ /\ last.value = <<"i", "p">> /\ last.pre.runner_tx_hash = <<<<"e", "t", "h">>, <<"l", "4">>>>
          /\ obj.runner_tx_hash = <<<<"i", "p">>>>
       \/ /\ last.value = <<"e", "t", "h", " ", "l", "4", " ", "x">> /\ last.res = "error"
          /\ obj.runner_tx_hash = <<<<"i", "p">>>>

====
